---- MODULE Spec2Model ----
(***************************************************************************)
(* A model of the AI prompt executor (configuration, cache, retry loop)    *)
(* and of the tool-chain plan generator and its safety validator of the    *)
(* mcp-adr-analysis-server.                                                *)
(*                                                                         *)
(* Conventions.  JavaScript strings are TLA+ strings; undefined / null /   *)
(* an unset environment variable is the value None.  Times are in ms, as   *)
(* Date.now() gives them.  Temperatures and confidences, which are         *)
(* fractions in the program, are integers in hundredths (0.6 is 60).       *)
(***************************************************************************)
EXTENDS Integers, Sequences, FiniteSets, TLC

\* An undefined string, an undefined object, and the number NaN.  A parsed number
\* is held as <<n>>, so that NaN, which is no number, is <<>>.
None == "<none>"
Null == [kind |-> "null"]
NaN == <<>>

Min(a, b) == IF a <= b THEN a ELSE b

(***************************************************************************)
(* Number parsing, as loadAIConfig applies it to environment strings.      *)
(***************************************************************************)
Digits == <<"0", "1", "2", "3", "4", "5", "6", "7", "8", "9">>

IsDigit(ch) == \E i \in 1..10 : Digits[i] = ch

DigitVal(ch) == (CHOOSE i \in 1..10 : Digits[i] = ch) - 1

\* s.charAt(i - 1): the empty string outside s.
CharAt(s, i) == IF 1 <= i /\ i <= Len(s) THEN SubSeq(s, i, i) ELSE ""

\* s holds p at position i.
HasAt(s, i, p) == i + Len(p) - 1 <= Len(s) /\ SubSeq(s, i, i + Len(p) - 1) = p

\* White space, as String.prototype.trim, \s and JSON.parse see it.
IsSpace(ch) == ch \in {" ", "\n", "\t", "\r"}

RECURSIVE TrimStart(_)
TrimStart(s) ==
    IF Len(s) > 0 /\ IsSpace(CharAt(s, 1)) THEN TrimStart(SubSeq(s, 2, Len(s))) ELSE s

RECURSIVE TrimEnd(_)
TrimEnd(s) ==
    IF Len(s) > 0 /\ IsSpace(CharAt(s, Len(s))) THEN TrimEnd(SubSeq(s, 1, Len(s) - 1)) ELSE s

Trim(s) == TrimEnd(TrimStart(s))

StartsWith(s, p) == HasAt(s, 1, p)
EndsWith(s, p) == Len(s) >= Len(p) /\ HasAt(s, Len(s) - Len(p) + 1, p)

\* s.includes(p).
Includes(s, p) == \E i \in 1..(Len(s) - Len(p) + 1) : HasAt(s, i, p)

\* The positions of s that hold the character ch.
Positions(s, ch) == {i \in 1..Len(s) : CharAt(s, i) = ch}

\* s.toLowerCase(), for the letters A to Z.
UpperCase == "ABCDEFGHIJKLMNOPQRSTUVWXYZ"
LowerCase == "abcdefghijklmnopqrstuvwxyz"

LowerChar(ch) ==
    IF Positions(UpperCase, ch) = {} THEN ch
    ELSE CharAt(LowerCase, CHOOSE i \in Positions(UpperCase, ch) : TRUE)

RECURSIVE ToLowerCase(_)
ToLowerCase(s) ==
    IF s = "" THEN "" ELSE LowerChar(CharAt(s, 1)) \o ToLowerCase(SubSeq(s, 2, Len(s)))

UpperChar(ch) ==
    IF Positions(LowerCase, ch) = {} THEN ch
    ELSE CharAt(UpperCase, CHOOSE i \in Positions(LowerCase, ch) : TRUE)

RECURSIVE ToUpperCase(_)
ToUpperCase(s) ==
    IF s = "" THEN "" ELSE UpperChar(CharAt(s, 1)) \o ToUpperCase(SubSeq(s, 2, Len(s)))

\* array.join(sep).
RECURSIVE JoinWith(_, _)
JoinWith(list, sep) ==
    IF list = <<>> THEN ""
    ELSE IF Len(list) = 1 THEN list[1]
    ELSE list[1] \o sep \o JoinWith(Tail(list), sep)

SetMin(S) == CHOOSE x \in S : \A y \in S : x <= y
SetMax(S) == CHOOSE x \in S : \A y \in S : x >= y

\* The length of the longest run of digits of s that starts at position i.
RECURSIVE DigitRun(_, _)
DigitRun(s, i) ==
    IF i <= Len(s) /\ IsDigit(CharAt(s, i)) THEN 1 + DigitRun(s, i + 1) ELSE 0

\* The value of the n digits of s that start at position i.
RECURSIVE DigitsValue(_, _, _)
DigitsValue(s, i, n) ==
    IF n = 0 THEN 0
    ELSE 10 * DigitsValue(s, i, n - 1) + DigitVal(CharAt(s, i + n - 1))

\* parseInt(s): an optional sign, then the leading digits; NaN without a digit.
ParseInt(s) ==
    IF s = None THEN NaN
    ELSE LET neg == Len(s) >= 1 /\ CharAt(s, 1) = "-"
             from == IF neg \/ (Len(s) >= 1 /\ CharAt(s, 1) = "+") THEN 2 ELSE 1
             n == DigitRun(s, from)
         IN  IF n = 0 THEN NaN
             ELSE IF neg THEN <<0 - DigitsValue(s, from, n)>> ELSE <<DigitsValue(s, from, n)>>

\* parseFloat(s) in hundredths: sign, digits, and up to two decimals after a dot.
ParseFloat(s) ==
    IF s = None THEN NaN
    ELSE LET neg == Len(s) >= 1 /\ CharAt(s, 1) = "-"
             from == IF neg \/ (Len(s) >= 1 /\ CharAt(s, 1) = "+") THEN 2 ELSE 1
             n == DigitRun(s, from)
             dot == from + n <= Len(s) /\ CharAt(s, from + n) = "."
             m == IF dot THEN Min(DigitRun(s, from + n + 1), 2) ELSE 0
             frac == IF m = 0 THEN 0
                     ELSE IF m = 1 THEN 10 * DigitsValue(s, from + n + 1, 1)
                     ELSE DigitsValue(s, from + n + 1, 2)
             abs == 100 * DigitsValue(s, from, n) + frac
         IN  IF n = 0 /\ m = 0 THEN NaN
             ELSE IF neg THEN <<0 - abs>> ELSE <<abs>>

\* JavaScript's  x || d  on a parsed number: NaN and 0 are falsy.
OrDefault(x, d) == IF x = NaN \/ x[1] = 0 THEN d ELSE x[1]

\* JavaScript's  s || d  on an environment string: unset and "" are falsy.
StrOr(s, d) == IF s = None \/ s = "" THEN d ELSE s

(***************************************************************************)
(* ai-config: DEFAULT_AI_CONFIG, loadAIConfig, the validations.            *)
(***************************************************************************)
DefaultModel == "anthropic/claude-3-sonnet"
DefaultExecutionMode == "full"
DefaultTimeout == 60000
DefaultMaxRetries == 3
DefaultTemperature == 10
DefaultMaxTokens == 4000
DefaultCacheTTL == 3600
DefaultAzureApiVersion == "2024-08-01-preview"

EnvVars ==
    {"AI_PROVIDER", "OPENROUTER_API_KEY", "OPENAI_API_KEY", "AZURE_OPENAI_API_KEY",
     "AZURE_OPENAI_ENDPOINT", "AZURE_OPENAI_DEPLOYMENT", "AZURE_OPENAI_API_VERSION",
     "AI_MODEL", "EXECUTION_MODE", "AI_TIMEOUT", "AI_MAX_RETRIES", "AI_TEMPERATURE",
     "AI_MAX_TOKENS", "AI_CACHE_ENABLED", "AI_CACHE_TTL"}

\* process.env with every variable unset.
EmptyEnv == [v \in EnvVars |-> None]

\* The provider-dependent part of loadAIConfig (the switch on provider).
ProviderFields(e) ==
    LET provider == StrOr(e["AI_PROVIDER"], "openrouter")
    IN  IF provider = "azure"
        THEN LET endpoint == StrOr(e["AZURE_OPENAI_ENDPOINT"], "")
                 deployment == StrOr(e["AZURE_OPENAI_DEPLOYMENT"], "")
             IN  [provider |-> provider,
                  apiKey |-> StrOr(e["AZURE_OPENAI_API_KEY"], ""),
                  defaultModel |-> StrOr(deployment, StrOr(e["AI_MODEL"], "gpt-4")),
                  azureEndpoint |-> StrOr(endpoint, None),
                  azureDeployment |-> StrOr(deployment, None),
                  azureApiVersion |->
                      StrOr(e["AZURE_OPENAI_API_VERSION"], DefaultAzureApiVersion)]
        ELSE IF provider = "openai"
        THEN [provider |-> provider,
              apiKey |-> StrOr(e["OPENAI_API_KEY"], ""),
              defaultModel |-> StrOr(e["AI_MODEL"], "gpt-4o"),
              azureEndpoint |-> None,
              azureDeployment |-> None,
              azureApiVersion |-> None]
        ELSE [provider |-> provider,
              apiKey |-> StrOr(e["OPENROUTER_API_KEY"], ""),
              defaultModel |-> StrOr(e["AI_MODEL"], DefaultModel),
              azureEndpoint |-> None,
              azureDeployment |-> None,
              azureApiVersion |-> None]

\* The AIConfig object loadAIConfig builds, before validateProviderConfig runs.
BuildConfig(e) ==
    LET p == ProviderFields(e)
    IN  [provider |-> p.provider,
         apiKey |-> p.apiKey,
         defaultModel |-> p.defaultModel,
         executionMode |-> StrOr(e["EXECUTION_MODE"], DefaultExecutionMode),
         timeout |-> OrDefault(ParseInt(e["AI_TIMEOUT"]), DefaultTimeout),
         maxRetries |-> OrDefault(ParseInt(e["AI_MAX_RETRIES"]), DefaultMaxRetries),
         temperature |-> OrDefault(ParseFloat(e["AI_TEMPERATURE"]), DefaultTemperature),
         maxTokens |-> OrDefault(ParseInt(e["AI_MAX_TOKENS"]), DefaultMaxTokens),
         cacheEnabled |-> e["AI_CACHE_ENABLED"] # "false",
         cacheTTL |-> OrDefault(ParseInt(e["AI_CACHE_TTL"]), DefaultCacheTTL),
         azureEndpoint |-> p.azureEndpoint,
         azureDeployment |-> p.azureDeployment,
         azureApiVersion |-> p.azureApiVersion]

\* validateProviderConfig without its early return in prompt-only mode.
MissingVars_AnyMode(cfg) ==
    IF cfg.provider = "azure"
    THEN (IF cfg.azureEndpoint = None THEN <<"AZURE_OPENAI_ENDPOINT">> ELSE <<>>)
         \o (IF cfg.apiKey = "" THEN <<"AZURE_OPENAI_API_KEY">> ELSE <<>>)
         \o (IF cfg.azureDeployment = None THEN <<"AZURE_OPENAI_DEPLOYMENT">> ELSE <<>>)
    ELSE IF cfg.provider = "openai"
    THEN (IF cfg.apiKey = "" THEN <<"OPENAI_API_KEY">> ELSE <<>>)
    ELSE (IF cfg.apiKey = "" THEN <<"OPENROUTER_API_KEY">> ELSE <<>>)

\* validateProviderConfig throwing at the first missing variable it finds.
MissingVars_FirstOnly(cfg) ==
    IF cfg.executionMode # "full" THEN <<>>
    ELSE IF cfg.provider = "azure"
    THEN IF cfg.azureEndpoint = None THEN <<"AZURE_OPENAI_ENDPOINT">>
         ELSE IF cfg.apiKey = "" THEN <<"AZURE_OPENAI_API_KEY">>
         ELSE IF cfg.azureDeployment = None THEN <<"AZURE_OPENAI_DEPLOYMENT">>
         ELSE <<>>
    ELSE IF cfg.provider = "openai"
    THEN (IF cfg.apiKey = "" THEN <<"OPENAI_API_KEY">> ELSE <<>>)
    ELSE (IF cfg.apiKey = "" THEN <<"OPENROUTER_API_KEY">> ELSE <<>>)

\* The environment variables validateProviderConfig finds missing, in the order
\* its message names them; empty when it does not throw.
MissingVars(cfg) ==
    IF cfg.executionMode # "full" THEN <<>>
    ELSE IF cfg.provider = "azure"
    THEN (IF cfg.azureEndpoint = None THEN <<"AZURE_OPENAI_ENDPOINT">> ELSE <<>>)
         \o (IF cfg.apiKey = "" THEN <<"AZURE_OPENAI_API_KEY">> ELSE <<>>)
         \o (IF cfg.azureDeployment = None THEN <<"AZURE_OPENAI_DEPLOYMENT">> ELSE <<>>)
    ELSE IF cfg.provider = "openai"
    THEN (IF cfg.apiKey = "" THEN <<"OPENAI_API_KEY">> ELSE <<>>)
    ELSE (IF cfg.apiKey = "" THEN <<"OPENROUTER_API_KEY">> ELSE <<>>)

\* The provider name the message of validateProviderConfig starts with.
ProviderLabel(cfg) ==
    IF cfg.provider = "azure" THEN "Azure AI Foundry"
    ELSE IF cfg.provider = "openai" THEN "OpenAI"
    ELSE "OpenRouter"

\* validateProviderConfig: the Error it throws, or Null.
validateProviderConfig(cfg) ==
    IF MissingVars(cfg) = <<>> THEN Null
    ELSE [kind |-> "Error", provider |-> ProviderLabel(cfg), names |-> MissingVars(cfg),
          message |-> <<ProviderLabel(cfg), " requires ", MissingVars(cfg)>>]

\* The end of loadAIConfig: validateProviderConfig(config), then return config.
ValidatedConfig(cfg) == [threw |-> validateProviderConfig(cfg), config |-> cfg]

\* loadAIConfig: the configuration, or the Error validateProviderConfig throws.
loadAIConfig(e) == ValidatedConfig(BuildConfig(e))

MinTemperature == 0
MaxTemperature == 100
MinMaxTokens == 100
MaxMaxTokens == 8000
MinTimeout == 1000
MaxTimeout == 300000

\* validateAIConfig with the ends of its ranges rejected.
validateAIConfigThrows_Strict(cfg) ==
    \/ cfg.temperature <= MinTemperature \/ cfg.temperature >= MaxTemperature
    \/ cfg.maxTokens <= MinMaxTokens \/ cfg.maxTokens >= MaxMaxTokens
    \/ cfg.timeout <= MinTimeout \/ cfg.timeout >= MaxTimeout

\* validateAIConfig: TRUE when it throws.
validateAIConfigThrows(cfg) ==
    \/ cfg.temperature < MinTemperature \/ cfg.temperature > MaxTemperature
    \/ cfg.maxTokens < MinMaxTokens \/ cfg.maxTokens > MaxMaxTokens
    \/ cfg.timeout < MinTimeout \/ cfg.timeout > MaxTimeout

isAIExecutionEnabled(cfg) == cfg.executionMode = "full" /\ cfg.apiKey # ""

(***************************************************************************)
(* AIExecutor: the cache key, the cache, the provider client.              *)
(***************************************************************************)
\* JSON.stringify of a string: quotes, backslashes and line feeds are escaped.
RECURSIVE JsonEscape(_)
JsonEscape(s) ==
    IF Len(s) = 0 THEN ""
    ELSE IF Len(s) = 1
    THEN (IF s = "\"" THEN "\\\"" ELSE IF s = "\\" THEN "\\\\"
          ELSE IF s = "\n" THEN "\\n" ELSE s)
    ELSE JsonEscape(SubSeq(s, 1, Len(s) \div 2))
             \o JsonEscape(SubSeq(s, (Len(s) \div 2) + 1, Len(s)))

JsonString(s) == "\"" \o JsonEscape(s) \o "\""

\* String(n) of a number that is a natural.
RECURSIVE NumText(_)
NumText(n) == IF n < 10 THEN Digits[n + 1] ELSE NumText(n \div 10) \o Digits[(n % 10) + 1]

\* One  "name":value  member of an object, or nothing for an undefined value.
JsonMember(name, text) == IF text = None THEN <<>> ELSE <<JsonString(name) \o ":" \o text>>

RECURSIVE JoinComma(_)
JoinComma(members) ==
    IF members = <<>> THEN ""
    ELSE IF Len(members) = 1 THEN members[1]
    ELSE members[1] \o "," \o JoinComma(Tail(members))

\* JSON.stringify of the options object; numbers are held as their JSON text.
OptionsJson(o) ==
    "{" \o JoinComma(JsonMember("model", IF o.model = None THEN None ELSE JsonString(o.model))
                     \o JsonMember("temperature", o.temperature)
                     \o JsonMember("maxTokens", o.maxTokens)
                     \o JsonMember("systemPrompt",
                                   IF o.systemPrompt = None THEN None
                                   ELSE JsonString(o.systemPrompt))) \o "}"

\* JSON.stringify({ prompt, model, options }).
KeyJson(prompt, model, options) ==
    "{" \o JsonString("prompt") \o ":" \o JsonString(prompt) \o ","
        \o JsonString("model") \o ":" \o JsonString(model) \o ","
        \o JsonString("options") \o ":" \o OptionsJson(options) \o "}"

\* Base64 turns each group of three bytes into four characters, one to one; a
\* group of the input stands for the four characters it encodes to.
Base64(s) == [i \in 1..((Len(s) + 2) \div 3) |-> SubSeq(s, 3 * i - 2, Min(3 * i, Len(s)))]

CacheKeyChars == 32

\* .slice(0, n) of a base64 text held as its groups, n a multiple of four.
SliceChars(groups, n) == SubSeq(groups, 1, Min(Len(groups), n \div 4))

generateCacheKey(prompt, model, options) ==
    SliceChars(Base64(KeyJson(prompt, model, options)), CacheKeyChars)

NoOptions == [model |-> None, temperature |-> None, maxTokens |-> None, systemPrompt |-> None]

\* cache.set(k, e) and cache.delete(k) on a Map held as a function.
MapSet(m, k, e) == [x \in DOMAIN m \cup {k} |-> IF x = k THEN e ELSE m[x]]

MapDelete(m, k) == [x \in DOMAIN m \ {k} |-> m[x]]

EmptyMap == [x \in {} |-> Null]

\* getCachedResult without its expiry test: an entry is served however old it is.
getCachedResult_ServesExpired(m, key, t) ==
    IF key \notin DOMAIN m THEN [result |-> Null, cache |-> m]
    ELSE [result |-> [m[key].result EXCEPT !.cached = TRUE], cache |-> m]

\* getCachedResult deleting the entry it serves.
getCachedResult_DropsServed(m, key, t) ==
    IF key \notin DOMAIN m THEN [result |-> Null, cache |-> m]
    ELSE IF t > m[key].expiry THEN [result |-> Null, cache |-> MapDelete(m, key)]
    ELSE [result |-> [m[key].result EXCEPT !.cached = TRUE], cache |-> MapDelete(m, key)]

\* getCachedResult: the result handed back (Null on a miss) and the cache after it.
getCachedResult(m, key, t) ==
    IF key \notin DOMAIN m THEN [result |-> Null, cache |-> m]
    ELSE IF t > m[key].expiry THEN [result |-> Null, cache |-> MapDelete(m, key)]
    ELSE [result |-> [m[key].result EXCEPT !.cached = TRUE], cache |-> m]

CacheCleanupSize == 100

\* cleanupCache with its test inverted: the unexpired entries are deleted.
cleanupCache_DeletesUnexpired(m, t) == [x \in {k \in DOMAIN m : t > m[k].expiry} |-> m[x]]

\* cleanupCache: every entry whose expiry lies before t is deleted.
cleanupCache(m, t) == [x \in {k \in DOMAIN m : ~(t > m[k].expiry)} |-> m[x]]

MsPerSecond == 1000

\* setCachedResult that adds the TTL to the clock as if it were milliseconds.
setCachedResult_TtlAsMs(m, key, result, ttl, t) ==
    LET put == MapSet(m, key, [result |-> result, expiry |-> t + ttl])
    IN  IF Cardinality(DOMAIN put) > CacheCleanupSize THEN cleanupCache(put, t) ELSE put

\* setCachedResult leaving an entry that is already stored as it is.
setCachedResult_KeepsFirst(m, key, result, ttl, t) ==
    IF key \in DOMAIN m THEN m
    ELSE LET put == MapSet(m, key, [result |-> result, expiry |-> t + ttl * MsPerSecond])
         IN  IF Cardinality(DOMAIN put) > CacheCleanupSize THEN cleanupCache(put, t) ELSE put

\* setCachedResult with the configured TTL in seconds, at time t.
setCachedResult(m, key, result, ttl, t) ==
    LET put == MapSet(m, key, [result |-> result, expiry |-> t + ttl * MsPerSecond])
    IN  IF Cardinality(DOMAIN put) > CacheCleanupSize THEN cleanupCache(put, t) ELSE put

\* initializeClient: the client held afterwards, given the one held before.
initializeClient(cfg, old) ==
    IF ~isAIExecutionEnabled(cfg) THEN old
    ELSE IF validateAIConfigThrows(cfg) THEN Null
    ELSE [provider |-> cfg.provider, apiKey |-> cfg.apiKey, model |-> cfg.defaultModel]

\* createError; the message is held as its parts.
createError(message, code, retryable, originalError) ==
    [kind |-> "AIExecutionError", message |-> message, code |-> code,
     retryable |-> retryable, originalError |-> originalError]

BackoffBaseMs == 1000
BackoffCapMs == 10000

\* The backoff without its cap.
BackoffDelay_NoCap(retryCount) == BackoffBaseMs * 2 ^ (retryCount - 1)

\* The delay awaited after the retryCount-th failure of a call.
BackoffDelay(retryCount) == Min(BackoffBaseMs * 2 ^ (retryCount - 1), BackoffCapMs)

(***************************************************************************)
(* tool-chain-orchestrator: the plan schema, validatePlanSafety, and       *)
(* generateToolChainPlan after the executor has answered.  Of a plan and   *)
(* of its steps the fields the validator reads are kept: confidence (in    *)
(* hundredths), steps, and of a step toolName, stepId and dependsOn, where *)
(* an absent dependsOn is the empty list, which the code treats alike; and *)
(* the optional fallbackSteps, a list of steps as well, which is no field  *)
(* of the record when the plan has none.                                   *)
(***************************************************************************)
AVAILABLE_TOOLS ==
    {"analyze_project_ecosystem", "generate_adrs_from_prd", "suggest_adrs",
     "analyze_content_security", "generate_rules", "generate_adr_todo",
     "compare_adr_progress", "manage_todo", "generate_deployment_guidance",
     "smart_score", "troubleshoot_guided_workflow", "smart_git_push",
     "generate_research_questions", "validate_rules", "analyze_code_patterns",
     "suggest_improvements", "generate_test_scenarios", "create_documentation",
     "security_audit", "performance_analysis", "dependency_analysis",
     "refactoring_suggestions", "api_documentation", "deployment_checklist",
     "release_notes"}

\* new McpAdrError(message, code); the message is held as its parts.
McpAdrError(message, code) == [kind |-> "McpAdrError", code |-> code, message |-> message]

\* new Error(message).
PlainError(message) == [kind |-> "Error", message |-> message]

\* The elements of a list.
Range(seq) == {seq[i] : i \in 1..Len(seq)}

\* ToolChainOrchestratorSchema.parse on the constraints: maxSteps defaults to 10.
\* A number the caller may leave out is <<>> when left out and <<n>> when given.
DefaultMaxSteps == 10

ParseConstraints(given) ==
    IF given = Null THEN Null
    ELSE [maxSteps |-> IF given.maxSteps = <<>> THEN DefaultMaxSteps ELSE given.maxSteps[1],
          excludeTools |-> given.excludeTools]

\* ToolChainPlanSchema.parse: the value must be an object with the plan's fields,
\* its confidence a number from 0 to 1; fallbackSteps may be absent.
MinConfidence == 0
MaxConfidence == 100

RequiredPlanFields == {"confidence", "steps"}
OptionalPlanFields == {"fallbackSteps"}

ToolChainPlanSchemaParse(value) ==
    IF /\ RequiredPlanFields \subseteq DOMAIN value
       /\ DOMAIN value \subseteq RequiredPlanFields \cup OptionalPlanFields
       /\ value.confidence >= MinConfidence
       /\ value.confidence <= MaxConfidence
    THEN [threw |-> Null, plan |-> value]
    ELSE [threw |-> [kind |-> "ZodError", message |-> <<"invalid plan">>], plan |-> Null]

\* The steps of a plan, by position, that satisfy a test on the tool name.
ToolsOf(plan, S) == [i \in {j \in 1..Len(plan.steps) : plan.steps[j].toolName \in S} |->
                        plan.steps[i].toolName]

\* The dependency check reading the first step only.
FirstDangling_FirstStepOnly(plan) ==
    LET stepIds == {plan.steps[i].stepId : i \in 1..Len(plan.steps)}
        dangling == {r \in {<<i, j>> : i \in 1..Min(1, Len(plan.steps)), j \in 1..2} :
                        /\ r[2] <= Len(plan.steps[r[1]].dependsOn)
                        /\ plan.steps[r[1]].dependsOn[r[2]] \notin stepIds}
    IN  IF dangling = {} THEN <<>>
        ELSE CHOOSE r \in dangling :
                 \A q \in dangling : r[1] < q[1] \/ (r[1] = q[1] /\ r[2] <= q[2])

\* The first reference, in step order and then in list order, to a stepId that no
\* step of the plan has: <<step, position>>, or <<>> when there is none.
FirstDangling(plan) ==
    LET stepIds == {plan.steps[i].stepId : i \in 1..Len(plan.steps)}
        dangling == {r \in {<<i, j>> : i \in 1..Len(plan.steps), j \in 1..2} :
                        /\ r[2] <= Len(plan.steps[r[1]].dependsOn)
                        /\ plan.steps[r[1]].dependsOn[r[2]] \notin stepIds}
    IN  IF dangling = {} THEN <<>>
        ELSE CHOOSE r \in dangling :
                 \A q \in dangling : r[1] < q[1] \/ (r[1] = q[1] /\ r[2] <= q[2])

ConfidenceThreshold == 60

\* The confidence test rejecting the threshold itself.
ConfidenceTooLow_AtThreshold(plan) == plan.confidence <= ConfidenceThreshold

\* plan.confidence < 0.6
ConfidenceTooLow(plan) == plan.confidence < ConfidenceThreshold

\* validatePlanSafety: the McpAdrError it throws, or Null when it returns.
validatePlanSafety(plan, constraints) ==
    LET excluded == IF constraints = Null THEN {} ELSE Range(constraints.excludeTools)
        usedExcludedTools == ToolsOf(plan, excluded)
        invalidTools == ToolsOf(plan, {plan.steps[i].toolName : i \in 1..Len(plan.steps)}
                                          \ AVAILABLE_TOOLS)
        bad == FirstDangling(plan)
    IN  IF /\ constraints # Null
           /\ constraints.maxSteps # 0
           /\ Len(plan.steps) > constraints.maxSteps
        THEN McpAdrError(<<"Plan exceeds maximum steps: ", Len(plan.steps), " > ",
                           constraints.maxSteps>>, "PLAN_TOO_COMPLEX")
        ELSE IF DOMAIN usedExcludedTools # {}
        THEN McpAdrError(<<"Plan uses excluded tools: ", usedExcludedTools>>,
                         "EXCLUDED_TOOLS_USED")
        ELSE IF DOMAIN invalidTools # {}
        THEN McpAdrError(<<"Plan uses unknown tools: ", invalidTools>>, "UNKNOWN_TOOLS")
        ELSE IF bad # <<>>
        THEN McpAdrError(<<"Step ", plan.steps[bad[1]].stepId,
                           " depends on non-existent step: ",
                           plan.steps[bad[1]].dependsOn[bad[2]]>>, "INVALID_DEPENDENCY")
        ELSE IF ConfidenceTooLow(plan)
        THEN McpAdrError(<<"Plan confidence too low: ", plan.confidence>>,
                         "LOW_CONFIDENCE_PLAN")
        ELSE Null

\* The pattern (\{[\s\S]*\}|\[[\s\S]*\]) on text: from the leftmost "{" that has a
\* "}" after it, or "[" that has a "]" after it, to the last such closer; <<>>
\* without a match.
BracketMatch(text) ==
    LET opens == {i \in Positions(text, "{") : \E j \in Positions(text, "}") : j > i}
                 \cup {i \in Positions(text, "[") : \E j \in Positions(text, "]") : j > i}
    IN  IF opens = {} THEN <<>>
        ELSE <<SubSeq(text, SetMin(opens),
                      SetMax(Positions(text, IF CharAt(text, SetMin(opens)) = "{"
                                             THEN "}" ELSE "]")))>>

\* The texts of the model write the grave accent as an apostrophe: a fence is
\* ''' and an inline code span is '...'.
\* The pattern ^'''(?:json)?\s*\n?([\s\S]*?)\n?'''$ on text: group 1, <<>> without a
\* match.  \s* takes all white space after the tag and the lazy group ends
\* before one line feed that precedes the closing fence.
CodeBlockMatch(text) ==
    IF Len(text) >= 6 /\ StartsWith(text, "'''") /\ EndsWith(text, "'''")
    THEN LET inner == SubSeq(text, 4, Len(text) - 3)
             body == TrimStart(IF StartsWith(inner, "json")
                               THEN SubSeq(inner, 5, Len(inner)) ELSE inner)
         IN  <<IF EndsWith(body, "\n") THEN SubSeq(body, 1, Len(body) - 1) ELSE body>>
    ELSE <<>>

\* The pattern ^'([\s\S]*?)'$ on text: group 1, <<>> without a match.
InlineCodeMatch(text) ==
    IF Len(text) >= 2 /\ StartsWith(text, "'") /\ EndsWith(text, "'")
    THEN <<SubSeq(text, 2, Len(text) - 1)>>
    ELSE <<>>

\* extractJsonFromResponse after content.trim(), given the three matches: a match
\* counts when its group is not empty.
Extracted(text, codeBlock, inlineCode, json) ==
    IF codeBlock # <<>> /\ Len(codeBlock[1]) > 0 THEN Trim(codeBlock[1])
    ELSE IF inlineCode # <<>> /\ Len(inlineCode[1]) > 0 THEN Trim(inlineCode[1])
    ELSE IF json # <<>> THEN Trim(json[1])
    ELSE text

ExtractTrimmed(text) ==
    Extracted(text, CodeBlockMatch(text), InlineCodeMatch(text), BracketMatch(text))

\* extractJsonFromResponse(content).
extractJsonFromResponse(content) == ExtractTrimmed(Trim(content))

\* JSON.parse, for texts without escapes in their strings and with numbers of at
\* most two decimals.  Objects are records, arrays sequences, numbers integers in
\* hundredths, null is Null.
RECURSIVE SkipSpace(_, _)
SkipSpace(s, i) == IF i <= Len(s) /\ IsSpace(CharAt(s, i)) THEN SkipSpace(s, i + 1) ELSE i

Failed(i) == [ok |-> FALSE, value |-> Null, next |-> i]
Parsed(v, i) == [ok |-> TRUE, value |-> v, next |-> i]

\* A JSON string that starts at i (no escapes): its characters.
JsonStringAt(s, i) ==
    LET close == {j \in Positions(s, "\"") : j > i}
    IN  IF i <= Len(s) /\ CharAt(s, i) = "\"" /\ close # {}
        THEN Parsed(SubSeq(s, i + 1, SetMin(close) - 1), SetMin(close) + 1)
        ELSE Failed(i)

\* A JSON number that starts at i, in hundredths: sign, digits, up to two decimals.
NumberFrom(s, i, sign, n, m) ==
    IF n = 0 THEN Failed(i)
    ELSE Parsed(sign * (100 * DigitsValue(s, i, n)
                        + (IF m = 0 THEN 0
                           ELSE IF m = 1 THEN 10 * DigitsValue(s, i + n + 1, 1)
                           ELSE DigitsValue(s, i + n + 1, 2))),
                IF m = 0 THEN i + n ELSE i + n + 1 + m)

JsonNumberAt(s, i) ==
    IF CharAt(s, i) = "-"
    THEN NumberFrom(s, i + 1, -1, DigitRun(s, i + 1),
                    IF CharAt(s, i + 1 + DigitRun(s, i + 1)) = "."
                    THEN DigitRun(s, i + 2 + DigitRun(s, i + 1)) ELSE 0)
    ELSE NumberFrom(s, i, 1, DigitRun(s, i),
                    IF CharAt(s, i + DigitRun(s, i)) = "."
                    THEN DigitRun(s, i + 1 + DigitRun(s, i)) ELSE 0)

RECURSIVE JsonValueAt(_, _), JsonMembersAt(_, _, _), JsonElementsAt(_, _, _)
AfterMember(s, acc, key, v, i) ==
    IF ~v.ok THEN Failed(i)
    ELSE IF CharAt(s, SkipSpace(s, v.next)) = ","
    THEN JsonMembersAt(s, SkipSpace(s, SkipSpace(s, v.next) + 1), (key :> v.value) @@ acc)
    ELSE IF CharAt(s, SkipSpace(s, v.next)) = "}"
    THEN Parsed((key :> v.value) @@ acc, SkipSpace(s, v.next) + 1)
    ELSE Failed(i)

MemberValue(s, acc, key, colon) ==
    IF key.ok /\ CharAt(s, colon) = ":"
    THEN AfterMember(s, acc, key.value, JsonValueAt(s, colon + 1), colon)
    ELSE Failed(colon)

JsonMembersAt(s, i, acc) ==
    MemberValue(s, acc, JsonStringAt(s, i), SkipSpace(s, JsonStringAt(s, i).next))

AfterElement(s, acc, v, i) ==
    IF ~v.ok THEN Failed(i)
    ELSE IF CharAt(s, SkipSpace(s, v.next)) = ","
    THEN JsonElementsAt(s, SkipSpace(s, v.next) + 1, Append(acc, v.value))
    ELSE IF CharAt(s, SkipSpace(s, v.next)) = "]"
    THEN Parsed(Append(acc, v.value), SkipSpace(s, v.next) + 1)
    ELSE Failed(i)

JsonElementsAt(s, i, acc) == AfterElement(s, acc, JsonValueAt(s, i), i)

JsonValueFrom(s, i) ==
    IF i > Len(s) THEN Failed(i)
    ELSE IF CharAt(s, i) = "{"
    THEN IF CharAt(s, SkipSpace(s, i + 1)) = "}" THEN Parsed(<<>>, SkipSpace(s, i + 1) + 1)
         ELSE JsonMembersAt(s, SkipSpace(s, i + 1), <<>>)
    ELSE IF CharAt(s, i) = "["
    THEN IF CharAt(s, SkipSpace(s, i + 1)) = "]" THEN Parsed(<<>>, SkipSpace(s, i + 1) + 1)
         ELSE JsonElementsAt(s, i + 1, <<>>)
    ELSE IF CharAt(s, i) = "\"" THEN JsonStringAt(s, i)
    ELSE IF HasAt(s, i, "true") THEN Parsed(TRUE, i + 4)
    ELSE IF HasAt(s, i, "false") THEN Parsed(FALSE, i + 5)
    ELSE IF HasAt(s, i, "null") THEN Parsed(Null, i + 4)
    ELSE JsonNumberAt(s, i)

JsonValueAt(s, i) == JsonValueFrom(s, SkipSpace(s, i))

SyntaxError == [kind |-> "SyntaxError", message |-> <<"Unexpected token">>]

\* typeof of the value a JSON text that begins with ch holds.
JsonKind(ch) ==
    IF ch = "{" THEN "object" ELSE IF ch = "[" THEN "array" ELSE IF ch = "\"" THEN "string"
    ELSE IF ch \in {"t", "f"} THEN "boolean" ELSE IF ch = "n" THEN "null" ELSE "number"

\* The whole of s must be the value r, white space aside.
Whole(s, r) ==
    IF r.ok /\ SkipSpace(s, r.next) > Len(s)
    THEN [threw |-> Null, value |-> r.value, kind |-> JsonKind(CharAt(s, SkipSpace(s, 1)))]
    ELSE [threw |-> SyntaxError, value |-> Null, kind |-> None]

\* JSON.parse(text): the value, or the SyntaxError thrown.
JSONParse(text) == Whole(text, JsonValueAt(text, 1))

(***************************************************************************)
(* What the provider writes.                                               *)
(***************************************************************************)
MaxPlanLen == 2

\* Steps: a tool of the vocabulary, one of it that callers exclude, and a tool
\* outside it; two stepIds; no dependency, or one on "s1".
StepKinds ==
    {[toolName |-> t, stepId |-> i, dependsOn |-> d] :
        t \in {"smart_score", "smart_git_push", "deploy_to_prod"},
        i \in {"s1", "s2"},
        d \in {<<>>, <<"s1">>}}

\* A plan of five steps in a chain, every tool of the vocabulary.
FiveSteps ==
    <<[toolName |-> "analyze_project_ecosystem", stepId |-> "s1", dependsOn |-> <<>>],
      [toolName |-> "suggest_adrs", stepId |-> "s2", dependsOn |-> <<"s1">>],
      [toolName |-> "generate_adr_todo", stepId |-> "s3", dependsOn |-> <<"s2">>],
      [toolName |-> "smart_score", stepId |-> "s4", dependsOn |-> <<"s3">>],
      [toolName |-> "release_notes", stepId |-> "s5", dependsOn |-> <<"s4">>]>>

\* A plan of one step more than the default maximum, every tool of the
\* vocabulary, no step depending on another.
ElevenTools ==
    <<"analyze_project_ecosystem", "generate_adrs_from_prd", "suggest_adrs",
      "analyze_content_security", "generate_rules", "generate_adr_todo",
      "compare_adr_progress", "manage_todo", "generate_deployment_guidance",
      "smart_score", "troubleshoot_guided_workflow">>

ElevenSteps ==
    [i \in 1..(DefaultMaxSteps + 1) |->
        [toolName |-> ElevenTools[i], stepId |-> "s" \o NumText(i), dependsOn |-> <<>>]]

StepLists ==
    UNION {[1..n -> StepKinds] : n \in 0..MaxPlanLen} \cup {FiveSteps, ElevenSteps}

\* Two steps that depend on each other.
MutualSteps ==
    <<[toolName |-> "suggest_adrs", stepId |-> "s1", dependsOn |-> <<"s2">>],
      [toolName |-> "generate_adr_todo", stepId |-> "s2", dependsOn |-> <<"s1">>]>>

\* Plans with fallbackSteps: one good step, and as the alternative a tool of the
\* vocabulary, one of it that callers exclude, or a tool outside it.
FallbackPlans ==
    {[confidence |-> 60,
      steps |-> <<[toolName |-> "smart_score", stepId |-> "s1", dependsOn |-> <<>>]>>,
      fallbackSteps |-> <<[toolName |-> t, stepId |-> "f1", dependsOn |-> <<>>]>>] :
        t \in {"manage_todo", "smart_git_push", "deploy_to_prod"}}

\* Confidences just below the threshold and at it.
Confidences == {59, 60}

\* The plans the provider may write, one of them with a confidence above the
\* schema's maximum.
JsonValues ==
    {[confidence |-> k, steps |-> l] : k \in Confidences, l \in StepLists}
        \cup {[confidence |-> 150, steps |-> FiveSteps]}
        \cup FallbackPlans
        \cup {[confidence |-> 60, steps |-> MutualSteps]}

\* JSON.stringify of a number held in hundredths.
DecimalText(n) ==
    NumText(n \div 100)
        \o (IF n % 100 = 0 THEN ""
            ELSE IF n % 10 = 0 THEN "." \o NumText((n % 100) \div 10)
            ELSE "." \o NumText((n % 100) \div 10) \o NumText(n % 10))

\* JSON.stringify of an array of strings, of a step and of a plan.
StringsJson(list) == "[" \o JoinComma([i \in 1..Len(list) |-> JsonString(list[i])]) \o "]"

StepJson(step) ==
    "{\"stepId\":" \o JsonString(step.stepId) \o ",\"toolName\":" \o JsonString(step.toolName)
        \o ",\"dependsOn\":" \o StringsJson(step.dependsOn) \o "}"

StepsJson(steps) == "[" \o JoinComma([i \in 1..Len(steps) |-> StepJson(steps[i])]) \o "]"

PlanJson(plan) ==
    "{\"confidence\":" \o DecimalText(plan.confidence) \o ",\"steps\":"
        \o StepsJson(plan.steps)
        \o (IF "fallbackSteps" \in DOMAIN plan
            THEN ",\"fallbackSteps\":" \o StepsJson(plan.fallbackSteps) ELSE "")
        \o "}"

\* What the provider may answer to a plan request: each plan as bare JSON, an
\* object that is no plan, a good plan in a fenced code block, and prose.
PlanContents ==
    {PlanJson(v) : v \in JsonValues}
        \cup {"{\"kind\":\"object\"}",
              "'''json\n" \o PlanJson([confidence |-> 60, steps |-> FiveSteps]) \o "\n'''",
              "'" \o PlanJson([confidence |-> 60, steps |-> FiveSteps]) \o "'",
              "Here is the plan: " \o PlanJson([confidence |-> 60, steps |-> FiveSteps])
                  \o " Run the steps in order.",
              "I cannot produce a plan for this request."}

\* JSON values as text: an object, an array of objects, and a string that holds
\* braces; each bare, in a fenced code block, and in an inline code span.
JsonTexts == {"{\"a\":1}", "[{\"a\":1},{\"b\":2}]", "\"see {docs}\""}

Fenced(t) == "'''json\n" \o t \o "\n'''"
InlineCode(t) == "'" \o t \o "'"
Wrappings(t) == {t, Fenced(t), InlineCode(t)}

\* What the provider may answer to a structured prompt: the JSON texts in each
\* wrapping, an object inside prose, two objects inside prose, and prose alone.
StructuredContents ==
    UNION {Wrappings(t) : t \in JsonTexts}
        \cup {"Here is the result: {\"a\":1} Done.",
              "First {\"a\":1} and then {\"b\":2}",
              "There is nothing to report."}

\* Every text a provider of the model writes.
\* What the provider may answer to the intent prompt: the analysis asked for,
\* bare or fenced, an analysis that suggests a tool outside the vocabulary, an
\* object without suggestedTools, or prose.
IntentJson ==
    "{\"intent\":\"review the project\",\"category\":\"analysis\",\"complexity\":\"simple\","
        \o "\"suggestedTools\":[\"analyze_project_ecosystem\"],\"confidence\":0.85}"

IntentJsonUnknownTool ==
    "{\"intent\":\"ship the project\",\"category\":\"deployment\",\"complexity\":\"complex\","
        \o "\"suggestedTools\":[\"smart_git_push\",\"deploy_to_prod\"],\"confidence\":0.9}"

IntentContents ==
    {IntentJson, Fenced(IntentJson), IntentJsonUnknownTool, "{\"intent\":\"unclear\"}",
     "There is nothing to report."}

ProviderTexts == PlanContents \cup StructuredContents \cup IntentContents

\* A function computed once and held as the table of its values.
Tabulated(f) == f @@ <<>>

\* extractJsonFromResponse and JSON.parse, tabulated over the texts they are
\* applied to, so that each is computed once.
Extract == Tabulated([c \in ProviderTexts |-> extractJsonFromResponse(c)])

Json ==
    Tabulated([t \in ProviderTexts \cup {Extract[c] : c \in ProviderTexts} |-> JSONParse(t)])

\* schema.parse(data) of a schema that requires an object with given keys: the
\* ZodError it throws, or Null.  parsed is what JSON.parse returned.
SchemaParse(schema, parsed) ==
    IF parsed.kind = "object" /\ schema.required \subseteq DOMAIN parsed.value THEN Null
    ELSE [kind |-> "ZodError", message |-> <<"Required">>]

\* The catch block of executeStructuredPrompt.
ParseFailure(error) ==
    [threw |-> createError(<<"Failed to parse JSON response: ", error.message>>,
                           "AI_JSON_PARSE_ERROR", FALSE, error),
     data |-> Null, raw |-> Null]

\* executeStructuredPrompt with the parse error reported as an execution failure.
StructuredResult_AsExecutionFailure(result, schema) ==
    LET parsed == Json[Extract[result.content]]
    IN  IF parsed.threw # Null
        THEN [threw |-> createError(<<"AI execution failed: ", parsed.threw.message>>,
                                    "AI_EXECUTION_FAILED", FALSE, parsed.threw),
              data |-> Null, raw |-> Null]
        ELSE IF schema # Null /\ SchemaParse(schema, parsed) # Null
        THEN ParseFailure(SchemaParse(schema, parsed))
        ELSE [threw |-> Null, data |-> parsed.value, raw |-> result]

\* executeStructuredPrompt after executePrompt has returned result: the error it
\* throws, or Null with the { data, raw: result } it returns.  schema is Null
\* when the caller gives none.
StructuredResult(result, schema) ==
    LET parsed == Json[Extract[result.content]]
    IN  IF parsed.threw # Null THEN ParseFailure(parsed.threw)
        ELSE IF schema # Null /\ SchemaParse(schema, parsed) # Null
        THEN ParseFailure(SchemaParse(schema, parsed))
        ELSE [threw |-> Null, data |-> parsed.value, raw |-> result]

\* The system prompt executeStructuredPrompt uses when the caller gives none,
\* abridged to its first sentence.
DefaultSystemPrompt == "You are a helpful assistant that responds with valid JSON."

\* The request executeStructuredPrompt passes to executePrompt.
StructuredRequest(prompt, options) ==
    [prompt |-> prompt,
     options |-> [options EXCEPT !.systemPrompt = StrOr(@, DefaultSystemPrompt),
                                 !.temperature = IF @ = None THEN "0.1" ELSE @]]

\* The catch block of generateToolChainPlan.
PlanningFailed(error) ==
    McpAdrError(<<"Tool chain planning failed: ", error.message>>, "PLANNING_FAILED")

\* generateToolChainPlan from the executor's answer on: what it threw inside its
\* try block (thrown), what it throws to its caller (threw), the plan it returns,
\* and the plan and constraints validatePlanSafety was run on (checked).
PlanOutcome(thrown, plan, checked) ==
    [thrown |-> thrown, threw |-> IF thrown = Null THEN Null ELSE PlanningFailed(thrown),
     plan |-> plan, checked |-> checked]

\* generateToolChainPlan returning the parsed plan without the safety checks.
generateToolChainPlan_Unvalidated(structured, constraints) ==
    IF structured.threw # Null THEN PlanOutcome(structured.threw, Null, Null)
    ELSE LET rawPlan == Json[structured.raw.content]
             validated == ToolChainPlanSchemaParse(rawPlan.value)
         IN  IF rawPlan.threw # Null THEN PlanOutcome(rawPlan.threw, Null, Null)
             ELSE IF validated.threw # Null THEN PlanOutcome(validated.threw, Null, Null)
             ELSE PlanOutcome(Null, validated.plan, Null)

generateToolChainPlan(structured, constraints) ==
    IF structured.threw # Null THEN PlanOutcome(structured.threw, Null, Null)
    ELSE LET rawPlan == Json[structured.raw.content]
             validated == ToolChainPlanSchemaParse(rawPlan.value)
             unsafe == validatePlanSafety(validated.plan, constraints)
             checked == [plan |-> validated.plan, constraints |-> constraints]
         IN  IF rawPlan.threw # Null THEN PlanOutcome(rawPlan.threw, Null, Null)
             ELSE IF validated.threw # Null THEN PlanOutcome(validated.threw, Null, Null)
             ELSE IF unsafe # Null THEN PlanOutcome(unsafe, Null, checked)
             ELSE PlanOutcome(Null, validated.plan, checked)

\* The keywordMap of fallbackIntentAnalysis, in the order of its entries.
keywordMap ==
    <<[keyword |-> "analyze",
       tools |-> <<"analyze_project_ecosystem", "analyze_content_security">>],
      [keyword |-> "generate",
       tools |-> <<"generate_adrs_from_prd", "generate_adr_todo",
                   "generate_deployment_guidance">>],
      [keyword |-> "todo", tools |-> <<"manage_todo", "generate_adr_todo">>],
      [keyword |-> "adr",
       tools |-> <<"suggest_adrs", "generate_adrs_from_prd", "compare_adr_progress">>],
      [keyword |-> "deploy", tools |-> <<"generate_deployment_guidance", "smart_git_push">>],
      [keyword |-> "score", tools |-> <<"smart_score">>],
      [keyword |-> "troubleshoot", tools |-> <<"troubleshoot_guided_workflow">>],
      [keyword |-> "security", tools |-> <<"analyze_content_security", "security_audit">>]>>

\* The loop over Object.entries(keywordMap): the tools of every keyword the
\* request includes, pushed in the order of the entries.
RECURSIVE PushMatched(_, _)
PushMatched(request, entries) ==
    IF entries = <<>> THEN <<>>
    ELSE (IF Includes(request, Head(entries).keyword) THEN Head(entries).tools ELSE <<>>)
             \o PushMatched(request, Tail(entries))

\* [...new Set(list)]: the first occurrence of each element, in order.
RECURSIVE Distinct(_)
Distinct(list) ==
    IF list = <<>> THEN <<>>
    ELSE LET front == Distinct(SubSeq(list, 1, Len(list) - 1))
         IN  IF list[Len(list)] \in Range(front) THEN front
             ELSE Append(front, list[Len(list)])

MaxSuggestedTools == 5
MatchedConfidence == 70
UnmatchedConfidence == 30

\* fallbackIntentAnalysis(userRequest); confidence in hundredths.
IntentAnalysis(request, suggestedTools) ==
    [intent |-> "User wants to "
                    \o (IF Includes(request, "analyze") THEN "analyze"
                        ELSE IF Includes(request, "generate") THEN "generate" ELSE "manage")
                    \o " project elements",
     category |-> IF Includes(request, "generate") \/ Includes(request, "create")
                  THEN "generation"
                  ELSE IF Includes(request, "troubleshoot") \/ Includes(request, "debug")
                  THEN "troubleshooting"
                  ELSE IF Includes(request, "deploy") \/ Includes(request, "release")
                  THEN "deployment"
                  ELSE "analysis",
     complexity |-> IF Includes(request, "generate") \/ Includes(request, "create")
                    THEN "moderate"
                    ELSE IF \/ Includes(request, "troubleshoot") \/ Includes(request, "debug")
                            \/ Includes(request, "deploy") \/ Includes(request, "release")
                    THEN "complex"
                    ELSE "simple",
     suggestedTools |-> SubSeq(Distinct(suggestedTools), 1,
                               Min(MaxSuggestedTools, Len(Distinct(suggestedTools)))),
     confidence |-> IF Len(suggestedTools) > 0 THEN MatchedConfidence
                    ELSE UnmatchedConfidence]

fallbackIntentAnalysis_NoCap(userRequest) ==
    LET analysis == IntentAnalysis(ToLowerCase(userRequest),
                                   PushMatched(ToLowerCase(userRequest), keywordMap))
    IN  [analysis EXCEPT !.suggestedTools =
             Distinct(PushMatched(ToLowerCase(userRequest), keywordMap))]

fallbackIntentAnalysis(userRequest) ==
    IntentAnalysis(ToLowerCase(userRequest),
                   PushMatched(ToLowerCase(userRequest), keywordMap))

\* What the analyze_intent case reads of the analysis: analysis.intent throws on
\* null, analysis.suggestedTools.map on a value without suggestedTools.
TypeError(message) == [kind |-> "TypeError", message |-> message]

RenderFailure(analysis) ==
    IF analysis.kind = "null"
    THEN TypeError("Cannot read properties of null (reading 'intent')")
    ELSE IF analysis.kind = "object" /\ "suggestedTools" \in DOMAIN analysis.value
    THEN Null
    ELSE TypeError("Cannot read properties of undefined (reading 'map')")

\* performRealityCheck.  An optional number or array of the session context is
\* <<>> when absent and <<value>> when given; an optional string is None when
\* absent.  sessionCtx is Null when the request has no session context.
LongConversation == 20
LongConversationScore == 2
RepetitionLimit == 3
StuckScore == 3
HighRiskScore == 5
MediumRiskScore == 2

\* The reduce over previousActions: each tool with the number of its
\* occurrences, in the order of first occurrence.
toolCounts(previousActions) ==
    [i \in 1..Len(Distinct(previousActions)) |->
        <<Distinct(previousActions)[i],
          Cardinality({j \in 1..Len(previousActions) :
                          previousActions[j] = Distinct(previousActions)[i]})>>]

repeatedTools(sessionCtx) ==
    IF sessionCtx = Null \/ sessionCtx.previousActions = <<>> THEN <<>>
    ELSE SelectSeq(toolCounts(sessionCtx.previousActions[1]),
                   LAMBDA entry : entry[2] > RepetitionLimit)

confusionKeywords ==
    <<"confused", "not working", "stuck", "help", "what should", "don't know", "error",
      "failed">>

foundKeywords(request) == SelectSeq(confusionKeywords, LAMBDA keyword : Includes(request, keyword))

\* conversationLength && conversationLength > 20, and the truth of stuckOnTask.
VeryLong(sessionCtx) ==
    /\ sessionCtx # Null
    /\ sessionCtx.conversationLength # <<>>
    /\ sessionCtx.conversationLength[1] # 0
    /\ sessionCtx.conversationLength[1] > LongConversation

Stuck(sessionCtx) == sessionCtx # Null /\ sessionCtx.stuckOnTask \notin {None, ""}

RECURSIVE Counted(_)
Counted(entries) ==
    IF entries = <<>> THEN <<>>
    ELSE <<Head(entries)[1] \o "(" \o NumText(Head(entries)[2]) \o "x)">>
             \o Counted(Tail(entries))

RiskOf(riskScore) ==
    IF riskScore >= HighRiskScore THEN "high"
    ELSE IF riskScore >= MediumRiskScore THEN "medium" ELSE "low"

SuggestedActionsOf(hallucinationRisk) ==
    IF hallucinationRisk = "high"
    THEN <<"IMMEDIATE: Start fresh session with analyze_project_ecosystem to reload context",
           "Avoid further AI planning - use predefined task patterns",
           "Consider resetting the conversation context">>
    ELSE IF hallucinationRisk = "medium"
    THEN <<"Use predefined task patterns for critical tasks",
           "Limit AI planning to simple operations",
           "Monitor for increasing confusion indicators">>
    ELSE <<"Continue with AI-assisted planning",
           "Monitor session for confusion indicators",
           "Keep human override available as backup">>

RealityCheck(long, repeated, found, stuckOnTask) ==
    [hallucinationRisk |->
         RiskOf((IF long THEN LongConversationScore ELSE 0) + Len(repeated) + Len(found)
                    + (IF stuckOnTask # None THEN StuckScore ELSE 0)),
     confusionIndicators |->
         (IF long THEN <<"Very long conversation - potential confusion accumulation">>
          ELSE <<>>)
         \o (IF Len(repeated) > 0
             THEN <<"Excessive repetition of tools: " \o JoinWith(Counted(repeated), ", ")>>
             ELSE <<>>)
         \o (IF Len(found) > 0
             THEN <<"Confusion keywords detected: " \o JoinWith(found, ", ")>>
             ELSE <<>>)
         \o (IF stuckOnTask # None THEN <<"Stuck on task: " \o stuckOnTask>> ELSE <<>>),
     recommendations |->
         (IF long THEN <<"Consider starting fresh with human override">> ELSE <<>>)
         \o (IF Len(repeated) > 0
             THEN <<"Break the repetition cycle with human override or different approach">>
             ELSE <<>>)
         \o (IF Len(found) > 0
             THEN <<"LLM expressing uncertainty - human override recommended">>
             ELSE <<>>)
         \o (IF stuckOnTask # None
             THEN <<"Use human override to force progress on stuck task">>
             ELSE <<>>),
     suggestedActions |->
         SuggestedActionsOf(
             RiskOf((IF long THEN LongConversationScore ELSE 0) + Len(repeated) + Len(found)
                        + (IF stuckOnTask # None THEN StuckScore ELSE 0)))]

performRealityCheck_StuckAloneIsHigh(args) ==
    RealityCheck(VeryLong(args.sessionContext) \/ Stuck(args.sessionContext),
                 repeatedTools(args.sessionContext),
                 foundKeywords(ToLowerCase(args.userRequest)),
                 IF Stuck(args.sessionContext) THEN args.sessionContext.stuckOnTask ELSE None)

performRealityCheck(args) ==
    RealityCheck(VeryLong(args.sessionContext),
                 repeatedTools(args.sessionContext),
                 foundKeywords(ToLowerCase(args.userRequest)),
                 IF Stuck(args.sessionContext) THEN args.sessionContext.stuckOnTask ELSE None)

\* generateSessionGuidance; the guidance lines are held without their pictographs.
SummaryLength == 15

StatusOf(hallucinationRisk) ==
    IF hallucinationRisk = "high" THEN "critical"
    ELSE IF hallucinationRisk = "medium" THEN "concerning" ELSE "healthy"

RECURSIVE Bulleted(_)
Bulleted(actions) ==
    IF actions = <<>> THEN <<>> ELSE <<"- " \o Head(actions)>> \o Bulleted(Tail(actions))

SessionGuidance(realityCheck, sessionCtx) ==
    [sessionStatus |-> StatusOf(realityCheck.hallucinationRisk),
     humanInterventionNeeded |-> realityCheck.hallucinationRisk = "high",
     recommendedNextStep |->
         IF realityCheck.hallucinationRisk = "high"
         THEN "Start fresh session with analyze_project_ecosystem"
         ELSE IF realityCheck.hallucinationRisk = "medium"
         THEN "Consider fresh session for critical tasks"
         ELSE "Continue with current approach",
     guidance |->
         (IF realityCheck.hallucinationRisk = "high"
          THEN <<"CRITICAL: High hallucination risk detected",
                 "LLM appears confused or stuck in loops",
                 "Fresh session with context reload strongly recommended">>
          ELSE IF realityCheck.hallucinationRisk = "medium"
          THEN <<"WARNING: Session showing signs of confusion",
                 "Monitor closely and prepare to restart with fresh context">>
          ELSE <<"Session appears healthy", "AI planning can continue safely">>)
         \o (IF /\ sessionCtx # Null
                /\ sessionCtx.conversationLength # <<>>
                /\ sessionCtx.conversationLength[1] > SummaryLength
             THEN <<"Long session (" \o NumText(sessionCtx.conversationLength[1])
                        \o " messages) - consider summarizing progress">>
             ELSE <<>>)
         \o (IF sessionCtx # Null /\ sessionCtx.lastSuccessfulAction \notin {None, ""}
             THEN <<"Last successful action: " \o sessionCtx.lastSuccessfulAction,
                    "Consider building on this success rather than trying new approaches">>
             ELSE <<>>)
         \o <<"", "Recommended Actions:">>
         \o Bulleted(realityCheck.suggestedActions)]

generateSessionGuidance_ConcerningIntervenes(args) ==
    LET guidance == SessionGuidance(performRealityCheck(args), args.sessionContext)
    IN  [guidance EXCEPT !.humanInterventionNeeded = guidance.sessionStatus # "healthy"]

generateSessionGuidance(args) ==
    SessionGuidance(performRealityCheck(args), args.sessionContext)

(***************************************************************************)
(* What the operations write, and where: console.log writes to stdout,     *)
(* console.error and console.warn to stderr.                               *)
(***************************************************************************)
Line(stream, text) == [stream |-> stream, text |-> text]

\* text.replace(pattern, ''): the text without the first occurrence of pattern.
WithoutFirst(text, pattern) ==
    LET at == {i \in 1..Len(text) : HasAt(text, i, pattern)}
    IN  IF at = {} THEN text
        ELSE SubSeq(text, 1, SetMin(at) - 1)
                 \o SubSeq(text, SetMin(at) + Len(pattern), Len(text))

\* The keys of AVAILABLE_MODELS.
ModelKeys == {"claude-3-sonnet", "claude-3-haiku", "gpt-4o", "gpt-4o-mini"}

\* validateAIConfig: the warning about a model it does not know.
validateAIConfigWrites(cfg) ==
    IF /\ WithoutFirst(WithoutFirst(cfg.defaultModel, "anthropic/"), "openai/") \notin ModelKeys
       /\ cfg.provider = "openrouter"
    THEN <<Line("stderr", "Unknown model: " \o cfg.defaultModel \o ". Using default.")>>
    ELSE <<>>

\* initializeClient: what it writes for the configuration it is given.
initializeClientWrites(cfg) ==
    IF ~isAIExecutionEnabled(cfg)
    THEN <<Line("stdout", "AI execution disabled - running in prompt-only mode")>>
    ELSE validateAIConfigWrites(cfg)
         \o IF validateAIConfigThrows(cfg)
            THEN <<Line("stderr", "Failed to initialize AI Executor:")>>
            ELSE IF cfg.provider = "azure"
            THEN <<Line("stderr", "[INFO] AI Executor initialized with Azure AI Foundry, deployment: "
                                      \o cfg.azureDeployment)>>
            ELSE IF cfg.provider = "openai"
            THEN <<Line("stderr", "[INFO] AI Executor initialized with OpenAI, model: "
                                      \o cfg.defaultModel)>>
            ELSE <<Line("stderr", "[INFO] AI Executor initialized with OpenRouter, model: "
                                      \o cfg.defaultModel)>>

\* reloadConfigIfNeeded: what it writes when the configuration has drifted.
reloadWrites(cfg, currentConfig) ==
    IF currentConfig.threw # Null THEN <<>>
    ELSE IF \/ cfg.apiKey # currentConfig.config.apiKey
            \/ cfg.executionMode # currentConfig.config.executionMode
            \/ cfg.defaultModel # currentConfig.config.defaultModel
    THEN <<Line("stdout", "AI configuration changed, reinitializing...")>>
             \o initializeClientWrites(currentConfig.config)
    ELSE <<>>

\* EnhancedLogger: the levels in order, and a logger configuration.
LogLevels == <<"debug", "info", "warn", "error", "critical">>

\* levels.indexOf(level), from 0; -1 for a level that is none of them.
IndexOfLevel(level) ==
    IF \E i \in DOMAIN LogLevels : LogLevels[i] = level
    THEN (CHOOSE i \in DOMAIN LogLevels : LogLevels[i] = level) - 1
    ELSE -1

isLevelEnabled(loggerConfig, level) == IndexOfLevel(level) >= IndexOfLevel(loggerConfig.level)

\* writeToConsole, reached through log and writeLogEntry.
logWrites(loggerConfig, level, message, component) ==
    IF ~isLevelEnabled(loggerConfig, level) \/ ~loggerConfig.enableConsole THEN <<>>
    ELSE <<Line("stderr", "[" \o ToUpperCase(level) \o "] [" \o component \o "] " \o message)>>

\* The logger as an object: its configuration and its logBuffer.  Of an entry
\* the level, the message and the component are kept, and the code of the
\* EnhancedError it was made from, None for an entry of the other methods.
maxBufferSize == 1000

\* writeLogEntry: the entry is pushed on the buffer, the oldest one shifted out
\* beyond maxBufferSize, and written to the console when that is enabled.
writeLogEntry(logger, entry) ==
    LET pushed == Append(logger.logBuffer, entry)
    IN  [logger |-> [logger EXCEPT !.logBuffer = IF Len(pushed) > maxBufferSize
                                                 THEN Tail(pushed) ELSE pushed],
         written |-> IF logger.config.enableConsole
                     THEN <<Line("stderr", "[" \o ToUpperCase(entry.level) \o "] ["
                                              \o entry.component \o "] " \o entry.message)>>
                     ELSE <<>>]

\* The core method log writing the entry whatever the level.
log_Unfiltered(logger, level, message, component) ==
    writeLogEntry(logger, [level |-> level, message |-> message, component |-> component,
                           code |-> None])

\* The core method log, which debug, info, warn, error and critical call.
log(logger, level, message, component) ==
    IF ~isLevelEnabled(logger.config, level) THEN [logger |-> logger, written |-> <<>>]
    ELSE writeLogEntry(logger, [level |-> level, message |-> message,
                                component |-> component, code |-> None])

mapSeverityToLogLevel(severity) ==
    CASE severity = "critical" -> "critical"
      [] severity = "high" -> "error"
      [] severity = "medium" -> "warn"
      [] severity = "low" -> "info"
      [] OTHER -> "info"

\* logEnhancedError: the entry is built from the error and written.
logEnhancedError(logger, error) ==
    writeLogEntry(logger, [level |-> mapSeverityToLogLevel(error.severity),
                           message |-> error.message, component |-> error.component,
                           code |-> error.code])

\* The catch block of toolChainOrchestrator, for an error that is no ZodError.
OrchestrationError(error) ==
    McpAdrError(<<"Tool chain orchestration failed: ", error.message>>, "ORCHESTRATION_ERROR")

(***************************************************************************)
(* The state: one AIExecutor, its environment, and the executePrompt calls *)
(* in progress on it.  A call that has returned or thrown shows its        *)
(* outcome for one state; the executor keeps nothing of it, and the next   *)
(* step of any kind frees its place.                                       *)
(***************************************************************************)
VARIABLES
    env,         \* process.env, as loadAIConfig reads it
    config,      \* AIExecutor.config
    client,      \* AIExecutor.client, Null when there is none
    cache,       \* AIExecutor.cache: key -> [result, expiry]
    now,         \* Date.now()
    calls,       \* the executePrompt calls: where each stands and what it has seen
    lastOk,      \* history: what the last successful call asked and returned, kept
                 \*   while the cache entry of its key is the one that call left
    changes,     \* the number of environment changes, updateConfig and clearCache calls
    orch,        \* the request of the caller that awaits the executor (generate_plan
                 \*   of toolChainOrchestrator, or executeStructuredPrompt itself):
                 \*   where it stands, and how the last one ended
    probe        \* what a caller's call of isAvailable, loadAIConfig or
                 \*   validateAIConfig returned or threw, shown for the state the
                 \*   call left; Null otherwise

vars == <<env, config, client, cache, now, calls, lastOk, changes, orch, probe>>

MaxTicks == 2
MaxChanges == 1

\* One caller, which awaits each call before it makes the next.
CallIds == {1}

\* The clock advances in steps of the shortest backoff delay.
ClockStep == BackoffBaseMs

\* Requests: the first two differ in the prompt only after its 13th character.
Requests ==
    {[prompt |-> "Analyze repo A", options |-> NoOptions],
     [prompt |-> "Analyze repo B", options |-> NoOptions],
     [prompt |-> "Summarize ADRs", options |-> NoOptions]}

\* What the provider may answer, and how an attempt may fail.
Contents == {"answer 1", "answer 2"}
Causes == {"timeout", "HTTP 500"}

\* The environments the executor is constructed in, and the changes made to them.
InitialEnvs ==
    {[EmptyEnv EXCEPT !["OPENROUTER_API_KEY"] = "sk-1", !["AI_MAX_RETRIES"] = "1",
                      !["AI_CACHE_TTL"] = "1"]}

EnvSettings ==
    {<<"EXECUTION_MODE", "prompt-only">>, <<"OPENROUTER_API_KEY", None>>,
     <<"OPENROUTER_API_KEY", "sk-2">>, <<"AI_MODEL", "gpt-4o">>}

ConfigUpdates ==
    {<<"cacheEnabled", FALSE>>, <<"maxRetries", 0>>, <<"temperature", 200>>}

\* The environments of an executor whose provider is down: AI_MAX_RETRIES is
\* negative, zero, small, and large enough for the backoff to reach its cap twice.
RetryEnvs ==
    {[EmptyEnv EXCEPT !["OPENROUTER_API_KEY"] = "sk-1", !["AI_MAX_RETRIES"] = n] :
        n \in {"-1", "0", "2", "6"}}

\* A caller that works through a list of prompts, each with its own cache key:
\* PromptNo(7) is "ADR 007: summarize the decision".
PruneCalls == 102

PromptNo(i) ==
    "ADR " \o Digits[((i \div 100) % 10) + 1] \o Digits[((i \div 10) % 10) + 1]
           \o Digits[(i % 10) + 1] \o ": summarize the decision"

PruneRequests == {[prompt |-> PromptNo(i), options |-> NoOptions] : i \in 1..PruneCalls}

\* AVAILABLE_MODELS, in the order of the object's keys, and getRecommendedModel
\* for a caller that is not cost sensitive.
\* inputCost and outputCost in hundredths.
AVAILABLE_MODELS ==
    <<[id |-> "anthropic/claude-3-sonnet", inputCost |-> 300, outputCost |-> 1500,
       useCases |-> {"analysis", "reasoning", "code-generation"}],
      [id |-> "anthropic/claude-3-haiku", inputCost |-> 25, outputCost |-> 125,
       useCases |-> {"quick-analysis", "simple-tasks"}],
      [id |-> "openai/gpt-4o", inputCost |-> 500, outputCost |-> 1500,
       useCases |-> {"analysis", "reasoning", "creative-tasks"}],
      [id |-> "openai/gpt-4o-mini", inputCost |-> 15, outputCost |-> 60,
       useCases |-> {"quick-analysis", "simple-tasks", "cost-effective"}]>>

\* models.sort by inputCost + outputCost; the sort is stable.
RECURSIVE SortByCost(_)
SortByCost(models) ==
    IF models = <<>> THEN <<>>
    ELSE LET m == Head(models)
             rest == SortByCost(Tail(models))
         IN  SelectSeq(rest, LAMBDA x : x.inputCost + x.outputCost
                                            < m.inputCost + m.outputCost)
                 \o <<m>>
                 \o SelectSeq(rest, LAMBDA x : x.inputCost + x.outputCost
                                                   >= m.inputCost + m.outputCost)

getRecommendedModel(useCase, costSensitive) ==
    LET suitableModels == SelectSeq(AVAILABLE_MODELS,
                              LAMBDA m : useCase \in m.useCases \/ "analysis" \in m.useCases)
    IN  IF suitableModels = <<>> THEN DefaultModel
        ELSE IF costSensitive THEN SortByCost(suitableModels)[1].id
        ELSE suitableModels[1].id

\* The user prompt generateToolChainPlan builds from the validated arguments; the
\* caller gives no customInstructions, timeLimit or prioritizeSpeed.
userPrompt(args) ==
    "User Request: \"" \o args.userRequest \o "\"\n\n\n\n"
        \o (IF args.constraints = Null THEN ""
            ELSE "Constraints:\n- Max Steps: " \o NumText(args.constraints.maxSteps)
                 \o "\n- Time Limit: None\n- Exclude Tools: "
                 \o (IF args.constraints.excludeTools = <<>> THEN "None"
                     ELSE JoinWith(args.constraints.excludeTools, ", "))
                 \o "\n- Prioritize Speed: No")
        \o "\n\nGenerate the optimal tool execution plan."

\* The system prompt of generateToolChainPlan, abridged to its first sentence.
PlanSystemPrompt == "You are an expert software architect and MCP tool orchestrator."

\* The request executeStructuredPrompt passes to executePrompt for a plan.
PlanRequest(args, maxTokens) ==
    [prompt |-> userPrompt(args),
     options |-> [model |-> getRecommendedModel("analysis", FALSE), temperature |-> "0.1",
                  maxTokens |-> NumText(maxTokens), systemPrompt |-> PlanSystemPrompt]]

\* What callers ask of generate_plan: constraints absent, or with maxSteps left
\* out, zero, or positive, and with or without tools to exclude.
UserRequests == {"analyze this project"}

GivenConstraints ==
    {Null} \cup {[maxSteps |-> m, excludeTools |-> x] :
                    m \in {<<>>, <<0>>, <<1>>, <<3>>},
                    x \in {<<>>, <<"smart_git_push", "deploy_to_prod">>}}

PlanArgs == {[userRequest |-> u, constraints |-> k] : u \in UserRequests, k \in GivenConstraints}

ValidatedArgs(args) ==
    [userRequest |-> args.userRequest, constraints |-> ParseConstraints(args.constraints)]

\* The environments generate_plan runs in: AI execution enabled, and prompt-only.
PlanEnvs ==
    InitialEnvs \cup {[e EXCEPT !["EXECUTION_MODE"] = "prompt-only"] : e \in InitialEnvs}

\* The environments analyze_intent runs in: those of generate_plan, and the same
\* without the credential.
IntentEnvs == PlanEnvs \cup {[e EXCEPT !["OPENROUTER_API_KEY"] = None] : e \in PlanEnvs}

\* What callers ask of analyze_intent.
IntentRequests ==
    {"analyze this project", "Generate ADR todo, deploy and score security",
     "debug the release", "create a release plan", "Troubleshoot the deploy", "hello"}

\* The system prompt of analyzeUserIntent, abridged to its first sentence.
IntentSystemPrompt == "Analyze the user's intent and suggest relevant MCP tools."

\* The request executeStructuredPrompt passes to executePrompt for an intent.
IntentRequest(userRequest) ==
    StructuredRequest("Analyze this request: \"" \o userRequest \o "\"",
                      [model |-> getRecommendedModel("quick-analysis", TRUE),
                       temperature |-> "0.1", maxTokens |-> "500",
                       systemPrompt |-> IntentSystemPrompt])

IntentRequestOf == Tabulated([u \in IntentRequests |-> IntentRequest(u)])

Fallback == Tabulated([u \in IntentRequests |-> fallbackIntentAnalysis(u)])

\* The environments within n changes of the initial ones.
RECURSIVE EnvsWithin(_)
EnvsWithin(n) ==
    IF n = 0 THEN InitialEnvs
    ELSE LET S == EnvsWithin(n - 1)
         IN  S \cup {[e EXCEPT ![s[1]] = s[2]] : e \in S, s \in EnvSettings}

\* loadAIConfig and generateCacheKey, tabulated over the arguments the executor
\* passes them, so that each is computed once.
\* The environments executePromptWithFallback runs in, and the settings that
\* change between its requests.
FallbackEnvs ==
    InitialEnvs
        \cup {[e EXCEPT !["EXECUTION_MODE"] = "prompt-only"] : e \in InitialEnvs}
        \cup {[e EXCEPT !["AI_MAX_RETRIES"] = "-1"] : e \in InitialEnvs}

FallbackSettings == {<<"EXECUTION_MODE", "prompt-only">>, <<"OPENROUTER_API_KEY", None>>}

RECURSIVE FallbackEnvsWithin(_)
FallbackEnvsWithin(n) ==
    IF n = 0 THEN FallbackEnvs
    ELSE LET S == FallbackEnvsWithin(n - 1)
         IN  S \cup {[e EXCEPT ![s[1]] = s[2]] : e \in S, s \in FallbackSettings}

\* The settings that change under a caller of updateConfig and getConfig: the
\* three fields the reload compares, one it does not, and the credential removed.
ReloadChanges == 2

ReloadSettings ==
    {<<"OPENROUTER_API_KEY", "sk-2">>, <<"OPENROUTER_API_KEY", None>>,
     <<"EXECUTION_MODE", "prompt-only">>, <<"AI_MODEL", "gpt-4o">>,
     <<"AI_MAX_TOKENS", "2000">>}

RECURSIVE ReloadEnvsWithin(_)
ReloadEnvsWithin(n) ==
    IF n = 0 THEN InitialEnvs
    ELSE LET S == ReloadEnvsWithin(n - 1)
         IN  S \cup {[e EXCEPT ![s[1]] = s[2]] : e \in S, s \in ReloadSettings}

Loaded ==
    Tabulated([e \in EnvsWithin(MaxChanges) \cup RetryEnvs \cup PlanEnvs \cup IntentEnvs
                       \cup FallbackEnvsWithin(MaxChanges)
                       \cup ReloadEnvsWithin(ReloadChanges) |->
                  loadAIConfig(e)])

\* PlanRequest, tabulated over the validated arguments and maxTokens in use.
PlanRequestOf ==
    Tabulated([q \in {ValidatedArgs(a) : a \in PlanArgs}
                   \X {Loaded[e].config.maxTokens : e \in PlanEnvs} |-> PlanRequest(q[1], q[2])])

PlanRequests == {PlanRequestOf[q] : q \in DOMAIN PlanRequestOf}

\* What callers ask of executeStructuredPrompt, and with which schema.
StructuredPrompts == {"List the decisions as JSON"}
Schemas == {Null, [required |-> {"a"}]}

StructuredRequests == {StructuredRequest(p, NoOptions) : p \in StructuredPrompts}

AllRequests ==
    Requests \cup PruneRequests \cup PlanRequests \cup StructuredRequests
        \cup {IntentRequestOf[u] : u \in IntentRequests}

Models ==
    {Loaded[e].config.defaultModel : e \in DOMAIN Loaded}
        \cup {r.options.model : r \in {q \in AllRequests : q.options.model # None}}

CacheKeyOf ==
    Tabulated([q \in AllRequests \X Models |->
                  generateCacheKey(q[1].prompt, q[2], q[1].options)])

\* The reload that replaces the configuration on any difference.
ReloadWith_OnAnyDifference(cfg, cl, currentConfig) ==
    IF currentConfig.threw # Null
    THEN [threw |-> currentConfig.threw, config |-> cfg, client |-> cl]
    ELSE IF cfg # currentConfig.config
    THEN [threw |-> Null, config |-> currentConfig.config,
          client |-> initializeClient(currentConfig.config, cl)]
    ELSE [threw |-> Null, config |-> cfg, client |-> cl]

\* reloadConfigIfNeeded: loadAIConfig may throw; otherwise the configuration and
\* the client are replaced when a salient field differs.
ReloadWith(cfg, cl, currentConfig) ==
    IF currentConfig.threw # Null
    THEN [threw |-> currentConfig.threw, config |-> cfg, client |-> cl]
    ELSE IF \/ cfg.apiKey # currentConfig.config.apiKey
            \/ cfg.executionMode # currentConfig.config.executionMode
            \/ cfg.defaultModel # currentConfig.config.defaultModel
    THEN [threw |-> Null, config |-> currentConfig.config,
          client |-> initializeClient(currentConfig.config, cl)]
    ELSE [threw |-> Null, config |-> cfg, client |-> cl]

reloadConfigIfNeeded(cfg, cl, e) == ReloadWith(cfg, cl, Loaded[e])

\* isAvailable: reloads, then tests the client and the configuration.
AvailableAfter(r) ==
    [threw |-> r.threw, config |-> r.config, client |-> r.client,
     value |-> r.threw = Null /\ r.client # Null /\ isAIExecutionEnabled(r.config)]

isAvailable(cfg, cl, e) == AvailableAfter(reloadConfigIfNeeded(cfg, cl, e))

\* No request made yet by the caller that awaits the executor.
\* The knowledge graph, ../utils/knowledge-graph-manager.js: what its two calls
\* around generate_plan do.  Each is a write to a store outside the process,
\* which resolves or rejects.
KgOutcomes ==
    {[createIntent |-> a, addToolExecution |-> b] :
        a \in {"resolves", "rejects"}, b \in {"resolves", "rejects"}}

Recorded == [createIntent |-> "resolves", addToolExecution |-> "resolves"]

\* What a rejected call of the knowledge graph rejects with.
KgFailure == [kind |-> "Error", message |-> "ENOSPC: no space left on device, write"]

IdleOrch == [pc |-> "idle", op |-> None, constraints |-> Null, planned |-> Null,
             plan |-> Null, error |-> Null, schema |-> Null, data |-> Null,
             userRequest |-> None, analysis |-> Null,
             sessionContext |-> Null, realityCheck |-> Null, guidance |-> Null,
             kg |-> Recorded, response |-> Null, available |-> <<>>,
             \* the EnhancedLogger the caller holds, Null when it holds none
             logger |-> Null]

IdleCall ==
    [pc |-> "idle", req |-> Null, model |-> None, cacheKey |-> <<>>,
     maxRetries |-> 0, retryCount |-> 0, attempts |-> 0, netCalls |-> 0, inFlight |-> 0,
     delays |-> <<>>, wakeAt |-> 0, result |-> Null, error |-> Null,
     \* history, read by the properties only
     heldCacheOn |-> FALSE, heldEntry |-> Null, available |-> FALSE,
     lookupAt |-> 0, lookupCacheOn |-> FALSE, lookupEntry |-> Null, prior |-> Null,
     lastCause |-> None, replaced |-> Null,
     \* history kept to the end of the call: the entry its lookup deleted
     dropped |-> Null]

EndPcs == {"returned", "thrown"}

\* The calls in progress: the place of a call that has ended is free again, and
\* what a call saw as it began is history kept for the state it began in only.
Live ==
    [c \in DOMAIN calls |->
        IF calls[c].pc \in EndPcs THEN IdleCall
        ELSE [calls[c] EXCEPT !.heldCacheOn = FALSE, !.heldEntry = Null,
                              !.lookupAt = 0, !.lookupCacheOn = FALSE,
                              !.lookupEntry = Null, !.prior = Null]]

\* A Map entry that is present, or Null.
EntryOf(m, k) == IF k \in DOMAIN m THEN m[k] ELSE Null

\* lastOk after the cache went from m to m2: it is dropped when the entry of its
\* key was written, replaced or deleted.
Forget(h, m, m2) ==
    IF h # Null /\ EntryOf(m, h.key) # EntryOf(m2, h.key) THEN Null ELSE h

Init ==
    /\ env \in InitialEnvs
    /\ config = Loaded[env].config
    /\ client = initializeClient(config, Null)
    /\ cache = EmptyMap
    /\ now = 0
    /\ calls = [c \in CallIds |-> IdleCall]
    /\ lastOk = Null
    /\ changes = 0
    /\ orch = IdleOrch
    /\ probe = Null

\* The catch block giving up one attempt early.
AfterFailure_GivesUpEarly(call, cause, t) ==
    LET rc == call.retryCount + 1
    IN  IF rc >= call.maxRetries
        THEN [call EXCEPT !.pc = "thrown", !.retryCount = rc,
                          !.error = createError(<<"AI execution failed after ", call.maxRetries,
                                                  " retries: ", cause>>,
                                                "AI_EXECUTION_FAILED", FALSE, cause)]
        ELSE [call EXCEPT !.pc = "backoff", !.retryCount = rc,
                          !.delays = Append(@, BackoffDelay(rc)),
                          !.wakeAt = t + BackoffDelay(rc)]

\* The catch block of the retry loop: the call after its attempt failed with cause.
AfterFailure(call, cause, t) ==
    LET rc == call.retryCount + 1
    IN  IF rc > call.maxRetries
        THEN [call EXCEPT !.pc = "thrown", !.retryCount = rc,
                          !.error = createError(<<"AI execution failed after ", call.maxRetries,
                                                  " retries: ", cause>>,
                                                "AI_EXECUTION_FAILED", FALSE, cause)]
        ELSE [call EXCEPT !.pc = "backoff", !.retryCount = rc,
                          !.delays = Append(@, BackoffDelay(rc)),
                          !.wakeAt = t + BackoffDelay(rc)]

\* executePrompt from the cache check on: r is what reloadConfigIfNeeded left, a
\* what isAvailable left, key the cache key, heldKey the key under the
\* configuration the call began with.
PromptChecked(c, req, r, a, model, key, heldKey) ==
    LET got == IF a.config.cacheEnabled THEN getCachedResult(cache, key, now)
               ELSE [result |-> Null, cache |-> cache]
        begun == [IdleCall EXCEPT !.req = req,
                     !.heldCacheOn = config.cacheEnabled,
                     !.heldEntry = IF heldKey \in DOMAIN cache
                                      /\ ~(now > cache[heldKey].expiry)
                                   THEN cache[heldKey] ELSE Null]
        looked == [begun EXCEPT !.model = model, !.cacheKey = key,
                      !.maxRetries = a.config.maxRetries, !.available = TRUE,
                      !.lookupAt = now, !.lookupCacheOn = a.config.cacheEnabled,
                      !.lookupEntry = EntryOf(cache, key),
                      !.prior = lastOk,
                      !.dropped = IF got.cache # cache THEN cache[key] ELSE Null]
    IN  IF r.threw # Null
        THEN /\ calls' = [Live EXCEPT ![c] =
                    [begun EXCEPT !.pc = "thrown", !.error = r.threw]]
             /\ UNCHANGED <<config, client, cache, lastOk>>
        ELSE IF ~a.value
        THEN /\ calls' = [Live EXCEPT ![c] =
                    [begun EXCEPT !.pc = "thrown",
                        !.error = createError(
                            <<"AI execution not available - check configuration">>,
                            "AI_UNAVAILABLE", FALSE, None)]]
             /\ config' = a.config
             /\ client' = a.client
             /\ UNCHANGED <<cache, lastOk>>
        ELSE /\ config' = a.config
             /\ client' = a.client
             /\ cache' = got.cache
             /\ lastOk' =
                    IF got.result # Null
                    THEN [req |-> req, model |-> model, key |-> key,
                          content |-> got.result.content,
                          deadline |-> cache[key].expiry]
                    ELSE Forget(lastOk, cache, got.cache)
             /\ calls' = [Live EXCEPT ![c] =
                    IF got.result # Null
                    THEN [looked EXCEPT !.pc = "returned", !.result = got.result]
                    ELSE IF ~(0 <= a.config.maxRetries)
                    THEN [looked EXCEPT !.pc = "thrown",
                             !.error = createError(<<"Unexpected error in AI execution">>,
                                                   "AI_UNEXPECTED_ERROR", FALSE, None)]
                    ELSE [looked EXCEPT !.pc = "inflight", !.attempts = 1,
                             !.netCalls = 1, !.inFlight = 1]]

\* const model = options.model || this.config.defaultModel, and the cache key.
PromptModel(c, req, r, a, model) ==
    PromptChecked(c, req, r, a, model, CacheKeyOf[<<req, model>>],
                  CacheKeyOf[<<req, StrOr(req.options.model, config.defaultModel)>>])

\* this.isAvailable() after the reload.
PromptReloaded(c, req, r) ==
    PromptModel(c, req, r, isAvailable(r.config, r.client, env),
                StrOr(req.options.model, isAvailable(r.config, r.client, env).config.defaultModel))

\* executePrompt up to its first await: reload, availability, cache, first attempt.
executePrompt(c, req) ==
    /\ Live[c].pc = "idle"
    /\ \A d \in DOMAIN calls : d < c => Live[d].pc # "idle"
    /\ PromptReloaded(c, req, reloadConfigIfNeeded(config, client, env))
    /\ UNCHANGED <<env, now, changes>>

\* The provider answers the attempt in flight: the result is built, cached when
\* the configuration held now enables caching, and returned.
AttemptSucceeds(c, content) ==
    /\ calls[c].pc = "inflight"
    /\ LET call == Live[c]
           result == [content |-> content, model |-> call.model, cached |-> FALSE,
                      retryCount |-> call.retryCount,
                      \* history, read by the properties only: the
                      \* configuration held and the time as the result was built
                      madeUnder |-> config, madeAt |-> now]
           stored == IF config.cacheEnabled
                     THEN setCachedResult(cache, call.cacheKey, result, config.cacheTTL, now)
                     ELSE cache
       IN  /\ cache' = stored
           /\ lastOk' =
                  IF config.cacheEnabled
                  THEN [req |-> call.req, model |-> call.model, key |-> call.cacheKey,
                        content |-> content,
                        deadline |-> now + config.cacheTTL * MsPerSecond]
                  ELSE Null
           /\ calls' = [Live EXCEPT ![c] =
                  [call EXCEPT !.pc = "returned", !.result = result, !.inFlight = @ - 1,
                               !.replaced = EntryOf(cache, call.cacheKey)]]
    /\ UNCHANGED <<env, config, client, now, changes>>

\* The attempt in flight fails with cause: the catch block counts it, and either
\* gives up or starts the backoff timer.
AttemptFails(c, cause) ==
    /\ calls[c].pc = "inflight"
    /\ calls' = [Live EXCEPT ![c] =
           AfterFailure([Live[c] EXCEPT !.inFlight = @ - 1, !.lastCause = cause],
                        cause, now)]
    /\ UNCHANGED <<env, config, client, cache, now, lastOk, changes>>

\* The backoff timer fires: the loop goes round and issues the next attempt.  With
\* no client left (a reload in between failed to build one) the attempt throws a
\* TypeError before any request is sent, and the catch block handles it at once.
TimerFires(c) ==
    /\ calls[c].pc = "backoff"
    /\ now >= calls[c].wakeAt
    /\ LET tried == [Live[c] EXCEPT !.attempts = @ + 1]
       IN  calls' = [Live EXCEPT ![c] =
               IF client = Null
               THEN AfterFailure([tried EXCEPT !.lastCause = "TypeError"], "TypeError", now)
               ELSE [tried EXCEPT !.pc = "inflight", !.netCalls = @ + 1, !.inFlight = @ + 1]]
    /\ UNCHANGED <<env, config, client, cache, now, lastOk, changes>>

\* A caller asks isAvailable(): the reload it does is its only effect.
IsAvailable ==
    /\ LET a == isAvailable(config, client, env)
       IN  /\ config' = a.config
           /\ client' = a.client
           /\ probe' = [op |-> "isAvailable", threw |-> a.threw, value |-> a.value]
    /\ calls' = Live
    /\ UNCHANGED <<env, cache, now, lastOk, changes>>

\* updateConfig(partial) with a one-field partial: the configuration is merged
\* and the client initialized again.
Updated(field, value) ==
    /\ config' = [config EXCEPT ![field] = value]
    /\ client' = initializeClient(config', client)
    /\ calls' = Live
    /\ UNCHANGED <<env, cache, now, lastOk>>

updateConfig(field, value) ==
    /\ changes < MaxChanges
    /\ Updated(field, value)
    /\ changes' = changes + 1

clearCache ==
    /\ changes < MaxChanges
    /\ cache' = EmptyMap
    /\ lastOk' = Forget(lastOk, cache, EmptyMap)
    /\ changes' = changes + 1
    /\ calls' = Live
    /\ UNCHANGED <<env, config, client, now>>

\* The environment of the process changes.
EnvSet(var, value) ==
    /\ env[var] # value
    /\ env' = [env EXCEPT ![var] = value]
    /\ calls' = Live
    /\ UNCHANGED <<config, client, cache, now, lastOk>>

SetEnv(var, value) ==
    /\ changes < MaxChanges
    /\ EnvSet(var, value)
    /\ changes' = changes + 1

\* Time passes: one step of the clock, of which there are at most ticks.
Advance(step, ticks) ==
    /\ now < ticks * step
    /\ now' = now + step
    /\ calls' = Live
    /\ UNCHANGED <<env, config, client, cache, lastOk, changes>>

Tick == Advance(ClockStep, MaxTicks)

Next ==
    \/ \E c \in CallIds, req \in Requests : executePrompt(c, req) /\ UNCHANGED orch /\ probe' = Null
    \/ \E c \in CallIds, content \in Contents : AttemptSucceeds(c, content) /\ UNCHANGED orch /\ probe' = Null
    \/ \E c \in CallIds, cause \in Causes : AttemptFails(c, cause) /\ UNCHANGED orch /\ probe' = Null
    \/ \E c \in CallIds : TimerFires(c) /\ UNCHANGED orch /\ probe' = Null
    \/ IsAvailable /\ UNCHANGED orch
    \/ \E u \in ConfigUpdates : updateConfig(u[1], u[2]) /\ UNCHANGED orch /\ probe' = Null
    \/ clearCache /\ UNCHANGED orch /\ probe' = Null
    \/ \E s \in EnvSettings : SetEnv(s[1], s[2]) /\ UNCHANGED orch /\ probe' = Null
    \/ Tick /\ UNCHANGED orch /\ probe' = Null

Spec == Init /\ [][Next]_vars

(***************************************************************************)
(* The executor with its provider down: every attempt fails, and the clock *)
(* runs long enough for the longest retry sequence to end.                 *)
(***************************************************************************)
RetryMaxTicks == 36

RetryRequests == {[prompt |-> "Summarize ADRs", options |-> NoOptions]}

InitRetry ==
    /\ env \in RetryEnvs
    /\ config = Loaded[env].config
    /\ client = initializeClient(config, Null)
    /\ cache = EmptyMap
    /\ now = 0
    /\ calls = [c \in CallIds |-> IdleCall]
    /\ lastOk = Null
    /\ changes = 0
    /\ orch = IdleOrch
    /\ probe = Null

TickRetry == Advance(ClockStep, RetryMaxTicks)

NextRetry ==
    \/ \E c \in CallIds, req \in RetryRequests : executePrompt(c, req) /\ UNCHANGED orch /\ probe' = Null
    \/ \E c \in CallIds, cause \in Causes : AttemptFails(c, cause) /\ UNCHANGED orch /\ probe' = Null
    \/ \E c \in CallIds : TimerFires(c) /\ UNCHANGED orch /\ probe' = Null
    \/ TickRetry /\ UNCHANGED orch /\ probe' = Null

SpecRetry == InitRetry /\ [][NextRetry]_vars

(***************************************************************************)
(* The executor under a caller that fills the cache: it asks the first     *)
(* prompt of its list that is not cached, or asks the hundredth prompt     *)
(* again.  The provider always answers.                                    *)
(***************************************************************************)
PruneTicks == 1

\* The request for the first prompt of the list with no entry in cache m.
PruneKey ==
    Tabulated([i \in 1..PruneCalls |->
            CacheKeyOf[<<[prompt |-> PromptNo(i), options |-> NoOptions], DefaultModel>>]])

FirstUncached(m) ==
    LET missing == {i \in 1..PruneCalls : PruneKey[i] \notin DOMAIN m}
    IN  {[prompt |-> PromptNo(i), options |-> NoOptions] :
            i \in {j \in missing : \A k \in missing : j <= k}}

PruneProbes == {[prompt |-> PromptNo(CacheCleanupSize), options |-> NoOptions]}

InitPrune ==
    /\ env \in InitialEnvs
    /\ config = Loaded[env].config
    /\ client = initializeClient(config, Null)
    /\ cache = EmptyMap
    /\ now = 0
    /\ calls = [c \in CallIds |-> IdleCall]
    /\ lastOk = Null
    /\ changes = 0
    /\ orch = IdleOrch
    /\ probe = Null

\* The caller pauses for longer than the cache TTL of one second.
PruneStep == 2 * ClockStep

TickPrune == Advance(PruneStep, PruneTicks)

NextPrune ==
    \/ \E c \in CallIds, req \in FirstUncached(cache) \cup PruneProbes :
          executePrompt(c, req) /\ UNCHANGED orch /\ probe' = Null
    \/ \E c \in CallIds : AttemptSucceeds(c, "answer 1") /\ UNCHANGED orch /\ probe' = Null
    \/ TickPrune /\ UNCHANGED orch /\ probe' = Null

SpecPrune == InitPrune /\ [][NextPrune]_vars

(***************************************************************************)
(* Two callers on one executor: each may begin a call while the other's is *)
(* in progress.  The provider answers each attempt on its own, or fails    *)
(* it.                                                                     *)
(***************************************************************************)
ConcTicks == 1

ConcCallIds == {1, 2}

ConcRequests ==
    {[prompt |-> "Analyze repo A", options |-> NoOptions],
     [prompt |-> "Summarize ADRs", options |-> NoOptions]}

InitConc ==
    /\ env \in InitialEnvs
    /\ config = Loaded[env].config
    /\ client = initializeClient(config, Null)
    /\ cache = EmptyMap
    /\ now = 0
    /\ calls = [c \in ConcCallIds |-> IdleCall]
    /\ lastOk = Null
    /\ changes = 0
    /\ orch = IdleOrch
    /\ probe = Null

TickConc == Advance(ClockStep, ConcTicks)

NextConc ==
    \/ \E c \in ConcCallIds, req \in ConcRequests : executePrompt(c, req) /\ UNCHANGED orch /\ probe' = Null
    \/ \E c \in ConcCallIds, content \in Contents :
          AttemptSucceeds(c, content) /\ UNCHANGED orch /\ probe' = Null
    \/ \E c \in ConcCallIds, cause \in Causes : AttemptFails(c, cause) /\ UNCHANGED orch /\ probe' = Null
    \/ \E c \in ConcCallIds : TimerFires(c) /\ UNCHANGED orch /\ probe' = Null
    \/ TickConc /\ UNCHANGED orch /\ probe' = Null

SpecConc == InitConc /\ [][NextConc]_vars

(***************************************************************************)
(* The configuration functions, called in a process whose environment      *)
(* selects any provider and either mode, with any of the provider          *)
(* variables present or absent.  A caller loads the configuration, and     *)
(* validates the configuration it loaded with its numeric parameters and   *)
(* its credential set to values of its own (temperatures in hundredths).   *)
(***************************************************************************)
ProviderVars ==
    {"OPENROUTER_API_KEY", "OPENAI_API_KEY", "AZURE_OPENAI_API_KEY",
     "AZURE_OPENAI_ENDPOINT", "AZURE_OPENAI_DEPLOYMENT"}

ConfigEnvs ==
    {[v \in EnvVars |->
         IF v = "AI_PROVIDER" THEN p
         ELSE IF v = "EXECUTION_MODE" THEN mode
         ELSE IF v \in present THEN "value of " \o v
         ELSE None] :
        p \in {None, "openrouter", "openai", "azure"},
        mode \in {None, "full", "prompt-only"},
        present \in SUBSET ProviderVars}

Temperatures == {-10, 0, 10, 100, 110}
TokenLimits == {99, 100, 8000, 8001}
Timeouts == {999, 1000, 300000, 300001}

InitConfig ==
    /\ env \in ConfigEnvs
    /\ config = Null
    /\ client = Null
    /\ cache = EmptyMap
    /\ now = 0
    /\ calls = [c \in CallIds |-> IdleCall]
    /\ lastOk = Null
    /\ changes = 0
    /\ orch = IdleOrch
    /\ probe = Null

\* const config = loadAIConfig(), by a caller that keeps the configuration.
LoadAIConfig ==
    /\ probe' = [op |-> "loadAIConfig", threw |-> loadAIConfig(env).threw,
                 value |-> IF loadAIConfig(env).threw = Null
                           THEN loadAIConfig(env).config ELSE Null]
    /\ config' = IF loadAIConfig(env).threw = Null THEN loadAIConfig(env).config
                 ELSE config
    /\ UNCHANGED <<env, client, cache, now, calls, lastOk, changes, orch>>

\* validateAIConfig(cfg), cfg the configuration held with four fields set.
ValidateAIConfig(temperature, maxTokens, timeout, apiKey) ==
    /\ config # Null
    /\ LET cfg == [config EXCEPT !.temperature = temperature, !.maxTokens = maxTokens,
                                 !.timeout = timeout, !.apiKey = apiKey]
       IN  probe' = [op |-> "validateAIConfig", arg |-> cfg,
                     threw |-> validateAIConfigThrows(cfg)]
    /\ UNCHANGED <<env, config, client, cache, now, calls, lastOk, changes, orch>>

NextConfig ==
    \/ LoadAIConfig
    \/ \E t \in Temperatures, m \in TokenLimits, o \in Timeouts, k \in {"", "sk-1"} :
          ValidateAIConfig(t, m, o, k)

SpecConfig == InitConfig /\ [][NextConfig]_vars

(***************************************************************************)
(* loadAIConfig in a process whose environment sets the five numeric       *)
(* variables, each to a number, to zero, to text that is no number, to the *)
(* empty string, or not at all.  The credential is set.                    *)
(***************************************************************************)
IntegerTexts == {None, "", "0", "7", "abc"}
DecimalTexts == {None, "", "0", "0.5", "abc"}

NumericEnvs ==
    {[EmptyEnv EXCEPT !["OPENROUTER_API_KEY"] = "sk-1", !["AI_TIMEOUT"] = timeout,
                      !["AI_MAX_RETRIES"] = maxRetries, !["AI_TEMPERATURE"] = temperature,
                      !["AI_MAX_TOKENS"] = maxTokens, !["AI_CACHE_TTL"] = cacheTTL] :
        timeout \in IntegerTexts, maxRetries \in IntegerTexts,
        temperature \in DecimalTexts, maxTokens \in IntegerTexts,
        cacheTTL \in IntegerTexts}

InitNumeric ==
    /\ env \in NumericEnvs
    /\ config = Null
    /\ client = Null
    /\ cache = EmptyMap
    /\ now = 0
    /\ calls = [c \in CallIds |-> IdleCall]
    /\ lastOk = Null
    /\ changes = 0
    /\ orch = IdleOrch
    /\ probe = Null

NextNumeric == LoadAIConfig

SpecNumeric == InitNumeric /\ [][NextNumeric]_vars

(***************************************************************************)
(* generate_plan: toolChainOrchestrator calls generateToolChainPlan, which *)
(* awaits the executor and resumes when its call ends.  The provider may   *)
(* answer with any of the plans below, in any of the forms, or fail.       *)
(***************************************************************************)
PlanTicks == 1

\* The request has ended with what generateToolChainPlan returned or threw:
\* the plan it returned is handed to await kgManager.addToolExecution(...)
\* before the response is built, still inside the try block.
Finish(o, outcome) ==
    IF outcome.threw # Null
    THEN [o EXCEPT !.pc = "thrown", !.planned = outcome,
                   !.error = OrchestrationError(outcome.threw)]
    ELSE IF o.kg.addToolExecution = "rejects"
    THEN [o EXCEPT !.pc = "thrown", !.planned = outcome,
                   !.error = OrchestrationError(KgFailure)]
    ELSE [o EXCEPT !.pc = "returned", !.planned = outcome, !.plan = outcome.plan]

\* executeStructuredPrompt when the executePrompt call it awaits has ended: an
\* error of executePrompt goes to the caller as it is.
StructuredEnds(o, call) ==
    IF call.pc = "thrown" THEN [o EXCEPT !.pc = "thrown", !.error = call.error]
    ELSE IF StructuredResult(call.result, o.schema).threw # Null
    THEN [o EXCEPT !.pc = "thrown", !.error = StructuredResult(call.result, o.schema).threw]
    ELSE [o EXCEPT !.pc = "returned", !.data = StructuredResult(call.result, o.schema).data]

\* analyzeUserIntent from the end of the executePrompt call on: whatever is
\* thrown inside its try block, by executeStructuredPrompt or by JSON.parse of the
\* raw content, leads to the keyword analysis; so does an empty content.
analyzeUserIntent(call, userRequest) ==
    IF \/ call.pc = "thrown"
       \/ StructuredResult(call.result, Null).threw # Null
       \/ call.result.content = ""
       \/ Json[call.result.content].threw # Null
    THEN [kind |-> "object", value |-> Fallback[userRequest]]
    ELSE [kind |-> Json[call.result.content].kind, value |-> Json[call.result.content].value]

\* The analyze_intent case of toolChainOrchestrator once analyzeUserIntent has
\* returned: it renders the analysis, and the catch block takes what that throws.
IntentEnds(o, analysis) ==
    IF RenderFailure(analysis) # Null
    THEN [o EXCEPT !.pc = "thrown", !.error = OrchestrationError(RenderFailure(analysis))]
    ELSE [o EXCEPT !.pc = "returned", !.analysis = analysis.value]

\* The errors of the executor the fallback runner turns into a degraded result:
\* the executor is unavailable, or its attempts are exhausted.
Degrades(error) ==
    error.kind = "AIExecutionError" /\ error.code \in {"AI_UNAVAILABLE", "AI_EXECUTION_FAILED"}

\* The degraded result: the prompt itself, for manual completion.
PromptOnly(prompt) == [mode |-> "prompt-only", content |-> prompt]

\* The runner that re-throws every error of the executor.
FallbackResult_Rethrows(call, prompt) ==
    IF call.pc = "thrown" THEN [threw |-> call.error, value |-> Null]
    ELSE [threw |-> Null, value |-> [mode |-> "full", content |-> call.result.content]]

\* executePromptWithFallback once the executePrompt call it awaits has ended.
FallbackResult(call, prompt) ==
    IF call.pc = "thrown"
    THEN IF Degrades(call.error) THEN [threw |-> Null, value |-> PromptOnly(prompt)]
         ELSE [threw |-> call.error, value |-> Null]
    ELSE [threw |-> Null, value |-> [mode |-> "full", content |-> call.result.content]]

FallbackEnds(o, call) ==
    IF FallbackResult(call, o.userRequest).threw # Null
    THEN [o EXCEPT !.pc = "thrown", !.error = FallbackResult(call, o.userRequest).threw]
    ELSE [o EXCEPT !.pc = "returned", !.response = FallbackResult(call, o.userRequest).value]

\* The request after a step of the executePrompt call it awaits: it goes on
\* waiting, or resumes in generateToolChainPlan with what the call returned or
\* threw.
Resume(o, call) ==
    IF call.pc \notin EndPcs THEN [o EXCEPT !.pc = "awaiting"]
    ELSE IF o.op = "executeStructuredPrompt" THEN StructuredEnds(o, call)
    ELSE IF o.op = "analyze_intent" THEN IntentEnds(o, analyzeUserIntent(call, o.userRequest))
    ELSE IF o.op = "executePromptWithFallback" THEN FallbackEnds(o, call)
    ELSE IF call.pc = "returned"
    THEN Finish(o, generateToolChainPlan(StructuredResult(call.result, Null), o.constraints))
    ELSE Finish(o, PlanOutcome(call.error, Null, Null))

InitPlan ==
    /\ env \in PlanEnvs
    /\ config = Loaded[env].config
    /\ client = initializeClient(config, Null)
    /\ cache = EmptyMap
    /\ now = 0
    /\ calls = [c \in CallIds |-> IdleCall]
    /\ lastOk = Null
    /\ changes = 0
    /\ orch = IdleOrch
    /\ probe = Null

\* generateToolChainPlan(validatedArgs) up to its first await of the executor,
\* aiConfig being what its loadAIConfig() returned or threw.  loadAIConfig and the
\* AI_NOT_ENABLED test come before the try block.
PlanWith(validatedArgs, aiConfig, kg) ==
    IF aiConfig.threw # Null \/ ~isAIExecutionEnabled(aiConfig.config)
    THEN /\ orch' = [IdleOrch EXCEPT !.op = "generate_plan",
                        !.constraints = validatedArgs.constraints, !.kg = kg,
                        !.pc = "thrown", !.error =
                            IF aiConfig.threw # Null THEN OrchestrationError(aiConfig.threw)
                            ELSE OrchestrationError(McpAdrError(
                                     <<"AI execution not enabled. Set OPENROUTER_API_KEY ",
                                       "and execution mode to \"full\"">>, "AI_NOT_ENABLED"))]
         /\ calls' = Live
         /\ UNCHANGED <<env, config, client, cache, now, lastOk, changes>>
    ELSE /\ executePrompt(1, PlanRequestOf[<<validatedArgs, aiConfig.config.maxTokens>>])
         /\ orch' = Resume([IdleOrch EXCEPT !.op = "generate_plan",
                        !.constraints = validatedArgs.constraints, !.kg = kg],
                           calls'[1])

\* toolChainOrchestrator({ operation: 'generate_plan', ... }) up to its first
\* await of the executor, kg being what the knowledge graph does with the two
\* calls of this request.  await kgManager.createIntent(...) comes first, inside
\* the try block: its rejection goes to the catch block.
toolChainOrchestrator(args, kg) ==
    /\ orch.pc # "awaiting"
    /\ IF kg.createIntent = "rejects"
       THEN /\ orch' = [IdleOrch EXCEPT !.op = "generate_plan",
                           !.constraints = ValidatedArgs(args).constraints, !.kg = kg,
                           !.pc = "thrown", !.error = OrchestrationError(KgFailure)]
            /\ calls' = Live
            /\ UNCHANGED <<env, config, client, cache, now, lastOk, changes>>
       ELSE PlanWith(ValidatedArgs(args), Loaded[env], kg)

\* The provider answers the attempt of the awaited call, or the attempt fails,
\* or its backoff timer fires.
ProviderAnswers(content) ==
    /\ orch.pc = "awaiting"
    /\ AttemptSucceeds(1, content)
    /\ orch' = Resume(orch, calls'[1])

ProviderFails(cause) ==
    /\ orch.pc = "awaiting"
    /\ AttemptFails(1, cause)
    /\ orch' = Resume(orch, calls'[1])

RetryTimerFires ==
    /\ orch.pc = "awaiting"
    /\ TimerFires(1)
    /\ orch' = Resume(orch, calls'[1])

TickPlan == Advance(ClockStep, PlanTicks) /\ UNCHANGED orch /\ probe' = Null

NextPlan ==
    \/ \E args \in PlanArgs : toolChainOrchestrator(args, Recorded) /\ probe' = Null
    \/ \E content \in PlanContents : ProviderAnswers(content) /\ probe' = Null
    \/ \E cause \in Causes : ProviderFails(cause) /\ probe' = Null
    \/ RetryTimerFires /\ probe' = Null
    \/ TickPlan

SpecPlan == InitPlan /\ [][NextPlan]_vars

(***************************************************************************)
(* executePromptWithFallback (src/utils/prompt-execution.ts) on the        *)
(* executor: it asks isAvailable(), calls executePrompt when the executor  *)
(* is available, and degrades to the prompt when it is not or when the     *)
(* call fails.  The environment may change between requests.               *)
(***************************************************************************)
FallbackTicks == 2

InitFallback ==
    /\ env \in FallbackEnvs
    /\ config = Loaded[env].config
    /\ client = initializeClient(config, Null)
    /\ cache = EmptyMap
    /\ now = 0
    /\ calls = [c \in CallIds |-> IdleCall]
    /\ lastOk = Null
    /\ changes = 0
    /\ orch = IdleOrch
    /\ probe = Null

\* executePromptWithFallback(prompt, ...) up to its first await of the executor.
executePromptWithFallback(req) ==
    /\ orch.pc # "awaiting"
    /\ LET a == isAvailable(config, client, env)
           asked == [IdleOrch EXCEPT !.op = "executePromptWithFallback",
                                     !.userRequest = req.prompt,
                                     !.available = IF a.threw # Null THEN <<>>
                                                   ELSE <<a.value>>]
       IN  IF a.threw # Null
           THEN /\ orch' = [asked EXCEPT !.pc = "thrown", !.error = a.threw]
                /\ calls' = Live
                /\ UNCHANGED <<env, config, client, cache, now, lastOk, changes>>
           ELSE IF ~a.value
           THEN /\ orch' = [asked EXCEPT !.pc = "returned",
                                         !.response = PromptOnly(req.prompt)]
                /\ config' = a.config
                /\ client' = a.client
                /\ calls' = Live
                /\ UNCHANGED <<env, cache, now, lastOk, changes>>
           ELSE /\ executePrompt(1, req)
                /\ orch' = Resume(asked, calls'[1])

TickFallback == Advance(ClockStep, FallbackTicks) /\ UNCHANGED orch /\ probe' = Null

NextFallback ==
    \/ \E req \in Requests : executePromptWithFallback(req) /\ probe' = Null
    \/ \E content \in Contents : ProviderAnswers(content) /\ probe' = Null
    \/ \E cause \in Causes : ProviderFails(cause) /\ probe' = Null
    \/ RetryTimerFires /\ probe' = Null
    \/ \E s \in FallbackSettings : SetEnv(s[1], s[2]) /\ UNCHANGED orch /\ probe' = Null
    \/ TickFallback

SpecFallback == InitFallback /\ [][NextFallback]_vars

(***************************************************************************)
(* A caller that updates the configuration of the executor and reads it    *)
(* back with getConfig, between calls of isAvailable and executePrompt and *)
(* changes of the environment.  orch holds what the caller expects after   *)
(* its last updateConfig: the configuration it read before, with the       *)
(* fields it gave overridden; a change of the environment ends that.       *)
(***************************************************************************)
ReloadTicks == 1

\* The one-field partials the caller gives: a field the reload does not compare,
\* and the three it compares.
ReloadUpdates ==
    {<<"maxRetries", 0>>, <<"defaultModel", "gpt-4o">>, <<"apiKey", "sk-9">>,
     <<"executionMode", "prompt-only">>}

\* { ...cfg, ...partial }
Merged(cfg, partial) ==
    [f \in DOMAIN cfg \cup DOMAIN partial |-> IF f \in DOMAIN partial THEN partial[f] ELSE cfg[f]]

\* getConfig(): a copy of the configuration held.
getConfig ==
    /\ probe' = [op |-> "getConfig", threw |-> Null, value |-> config]
    /\ calls' = Live
    /\ UNCHANGED <<env, config, client, cache, now, lastOk, changes, orch>>

\* The caller calls updateConfig({ field: value }).
CallerUpdates(field, value) ==
    /\ changes < ReloadChanges
    /\ Updated(field, value)
    /\ changes' = changes + 1
    /\ orch' = [IdleOrch EXCEPT !.op = "updateConfig",
                                !.data = Merged(config, (field :> value))]
    /\ probe' = Null

EnvChanges(var, value) ==
    /\ changes < ReloadChanges
    /\ EnvSet(var, value)
    /\ changes' = changes + 1
    /\ orch' = IdleOrch
    /\ probe' = Null

TickReload == Advance(ClockStep, ReloadTicks) /\ UNCHANGED orch /\ probe' = Null

NextReload ==
    \/ \E req \in RetryRequests : executePrompt(1, req) /\ UNCHANGED orch /\ probe' = Null
    \/ \E content \in Contents : AttemptSucceeds(1, content) /\ UNCHANGED orch /\ probe' = Null
    \/ \E cause \in Causes : AttemptFails(1, cause) /\ UNCHANGED orch /\ probe' = Null
    \/ TimerFires(1) /\ UNCHANGED orch /\ probe' = Null
    \/ IsAvailable /\ UNCHANGED orch
    \/ getConfig
    \/ \E u \in ReloadUpdates : CallerUpdates(u[1], u[2])
    \/ \E s \in ReloadSettings : EnvChanges(s[1], s[2])
    \/ TickReload

SpecReload == Init /\ [][NextReload]_vars

(***************************************************************************)
(* The output of the executor and of the logger: probe holds what the last *)
(* operation wrote.  The executor is constructed again after the           *)
(* environment has changed, as a restart of the server does.               *)
(***************************************************************************)
OutputTicks == 1

LoggerConfigs ==
    {[level |-> l, enableConsole |-> c] :
        l \in {"debug", "info", "warn", "error", "critical", "verbose"}, c \in BOOLEAN}

LogMessages == {"debug message", "error message"}

InitOutput ==
    /\ env \in InitialEnvs
    /\ config = Loaded[env].config
    /\ client = initializeClient(config, Null)
    /\ cache = EmptyMap
    /\ now = 0
    /\ calls = [c \in CallIds |-> IdleCall]
    /\ lastOk = Null
    /\ changes = 0
    /\ orch = IdleOrch
    /\ probe = [op |-> "constructor", threw |-> Null,
                written |-> initializeClientWrites(Loaded[env].config)]

\* new AIExecutor(): loadAIConfig() and initializeClient().
Construct ==
    /\ IF Loaded[env].threw # Null
       THEN /\ probe' = [op |-> "constructor", threw |-> Loaded[env].threw, written |-> <<>>]
            /\ UNCHANGED <<config, client, cache, lastOk>>
       ELSE /\ config' = Loaded[env].config
            /\ client' = initializeClient(config', Null)
            /\ cache' = EmptyMap
            /\ lastOk' = Null
            /\ probe' = [op |-> "constructor", threw |-> Null,
                         written |-> initializeClientWrites(config')]
    /\ calls' = [c \in CallIds |-> IdleCall]
    /\ UNCHANGED <<env, now, changes, orch>>

\* executePrompt, with what its reload writes.
ExecutePromptWrites(req) ==
    /\ executePrompt(1, req)
    /\ probe' = [op |-> "executePrompt", threw |-> Null,
                 written |-> reloadWrites(config, Loaded[env])]
    /\ UNCHANGED orch

\* isAvailable(), with what its reload writes.
IsAvailableWrites ==
    /\ LET a == isAvailable(config, client, env)
       IN  /\ config' = a.config
           /\ client' = a.client
           /\ probe' = [op |-> "isAvailable", threw |-> a.threw,
                        written |-> reloadWrites(config, Loaded[env])]
    /\ calls' = Live
    /\ UNCHANGED <<env, cache, now, lastOk, changes, orch>>

\* updateConfig, with what its initializeClient writes.
UpdateConfigWrites(field, value) ==
    /\ updateConfig(field, value)
    /\ probe' = [op |-> "updateConfig", threw |-> Null,
                 written |-> initializeClientWrites(config')]
    /\ UNCHANGED orch

\* The attempt of the call ends, or its timer fires: nothing is written.
AttemptWrites ==
    /\ \/ \E content \in Contents : AttemptSucceeds(1, content)
       \/ \E cause \in Causes : AttemptFails(1, cause)
       \/ TimerFires(1)
    /\ probe' = [op |-> "attempt", threw |-> Null, written |-> <<>>]
    /\ UNCHANGED orch

\* new EnhancedLogger(loggerConfig) and one of its methods debug, info, warn,
\* error, critical.
Log(loggerConfig, level, message) ==
    /\ probe' = [op |-> "log", threw |-> Null,
                 written |-> logWrites(loggerConfig, level, message, "TestComponent")]
    /\ calls' = Live
    /\ UNCHANGED <<env, config, client, cache, now, lastOk, changes, orch>>

TickOutput == Advance(ClockStep, OutputTicks) /\ UNCHANGED orch /\ probe' = Null

NextOutput ==
    \/ Construct
    \/ \E req \in RetryRequests : ExecutePromptWrites(req)
    \/ IsAvailableWrites
    \/ \E u \in ConfigUpdates : UpdateConfigWrites(u[1], u[2])
    \/ AttemptWrites
    \/ \E loggerConfig \in LoggerConfigs, i \in DOMAIN LogLevels, message \in LogMessages :
          Log(loggerConfig, LogLevels[i], message)
    \/ \E s \in EnvSettings : SetEnv(s[1], s[2]) /\ UNCHANGED orch /\ probe' = Null
    \/ TickOutput

SpecOutput == InitOutput /\ [][NextOutput]_vars

(***************************************************************************)
(* One EnhancedLogger and its caller: the logging methods,                 *)
(* logEnhancedError and clearLogs, on a logger of any level with the       *)
(* console on or off.  probe holds what the last method wrote, and the     *)
(* level of its entry.                                                     *)
(***************************************************************************)
LoggedEntries == 2

Severities == {"critical", "high", "medium", "low"}

\* The EnhancedErrors the caller logs.
EnhancedErrors ==
    {[severity |-> v, message |-> "operation failed", component |-> "TestComponent",
      code |-> "E_TEST"] : v \in Severities}

InitLogger ==
    /\ env \in InitialEnvs
    /\ config = Null
    /\ client = Null
    /\ cache = EmptyMap
    /\ now = 0
    /\ calls = [c \in CallIds |-> IdleCall]
    /\ lastOk = Null
    /\ changes = 0
    /\ \E loggerConfig \in LoggerConfigs :
           orch = [IdleOrch EXCEPT !.logger = [config |-> loggerConfig, logBuffer |-> <<>>]]
    /\ probe = Null

\* The logger after a method, and what the method wrote.
Logged(op, level, done) ==
    /\ Len(orch.logger.logBuffer) < LoggedEntries
    /\ orch' = [orch EXCEPT !.logger = done.logger]
    /\ probe' = [op |-> op, threw |-> Null, level |-> level, written |-> done.written]
    /\ UNCHANGED <<env, config, client, cache, now, calls, lastOk, changes>>

\* debug, info, warn, error or critical (message, component).
LogAt(level, message) ==
    Logged("log", level, log(orch.logger, level, message, "TestComponent"))

LogEnhancedError(error) ==
    Logged("logEnhancedError", mapSeverityToLogLevel(error.severity),
           logEnhancedError(orch.logger, error))

clearLogs ==
    /\ orch.logger.logBuffer # <<>>
    /\ orch' = [orch EXCEPT !.logger.logBuffer = <<>>]
    /\ probe' = Null
    /\ UNCHANGED <<env, config, client, cache, now, calls, lastOk, changes>>

NextLogger ==
    \/ \E i \in DOMAIN LogLevels, message \in LogMessages : LogAt(LogLevels[i], message)
    \/ \E error \in EnhancedErrors : LogEnhancedError(error)
    \/ clearLogs

SpecLogger == InitLogger /\ [][NextLogger]_vars

(***************************************************************************)
(* generate_plan with a knowledge graph whose calls may reject.            *)
(***************************************************************************)
PersistArgs ==
    {[userRequest |-> u, constraints |-> k] :
        u \in UserRequests, k \in {Null, [maxSteps |-> <<1>>, excludeTools |-> <<>>]}}

PersistContents ==
    {PlanJson([confidence |-> 60, steps |-> l]) : l \in StepLists}
        \cup {"I cannot produce a plan for this request."}

InitPersist ==
    /\ env \in InitialEnvs
    /\ config = Loaded[env].config
    /\ client = initializeClient(config, Null)
    /\ cache = EmptyMap
    /\ now = 0
    /\ calls = [c \in CallIds |-> IdleCall]
    /\ lastOk = Null
    /\ changes = 0
    /\ orch = IdleOrch
    /\ probe = Null

NextPersist ==
    \/ \E args \in PersistArgs, kg \in KgOutcomes :
          toolChainOrchestrator(args, kg) /\ probe' = Null
    \/ \E content \in PersistContents : ProviderAnswers(content) /\ probe' = Null
    \/ \E cause \in Causes : ProviderFails(cause) /\ probe' = Null
    \/ RetryTimerFires /\ probe' = Null
    \/ TickPlan

SpecPersist == InitPersist /\ [][NextPersist]_vars

(***************************************************************************)
(* executeStructuredPrompt, called with or without a schema on an executor *)
(* in full or in prompt-only mode.  The provider may answer with a JSON    *)
(* value that is bare, fenced or in an inline code span, with JSON inside  *)
(* prose or with prose alone, or fail.                                     *)
(***************************************************************************)
StructuredTicks == 2

InitStructured ==
    /\ env \in PlanEnvs
    /\ config = Loaded[env].config
    /\ client = initializeClient(config, Null)
    /\ cache = EmptyMap
    /\ now = 0
    /\ calls = [c \in CallIds |-> IdleCall]
    /\ lastOk = Null
    /\ changes = 0
    /\ orch = IdleOrch
    /\ probe = Null

\* executeStructuredPrompt(prompt, schema, options) up to its await of
\* executePrompt.
executeStructuredPrompt(prompt, schema, options) ==
    /\ orch.pc # "awaiting"
    /\ executePrompt(1, StructuredRequest(prompt, options))
    /\ orch' = Resume([IdleOrch EXCEPT !.op = "executeStructuredPrompt", !.schema = schema],
                      calls'[1])

TickStructured == Advance(ClockStep, StructuredTicks) /\ UNCHANGED orch /\ probe' = Null

NextStructured ==
    \/ \E prompt \in StructuredPrompts, schema \in Schemas :
          executeStructuredPrompt(prompt, schema, NoOptions) /\ probe' = Null
    \/ \E content \in StructuredContents : ProviderAnswers(content) /\ probe' = Null
    \/ \E cause \in Causes : ProviderFails(cause) /\ probe' = Null
    \/ RetryTimerFires /\ probe' = Null
    \/ TickStructured

SpecStructured == InitStructured /\ [][NextStructured]_vars

(***************************************************************************)
(* toolChainOrchestrator({ operation: 'analyze_intent', ... }), in an      *)
(* environment with or without the credential, in full or in prompt-only   *)
(* mode.  No executor exists where its constructor's loadAIConfig throws.  *)
(***************************************************************************)
IntentTicks == 1

InitIntent ==
    /\ env \in IntentEnvs
    /\ config = Loaded[env].config
    /\ client = IF Loaded[env].threw # Null THEN Null ELSE initializeClient(config, Null)
    /\ cache = EmptyMap
    /\ now = 0
    /\ calls = [c \in CallIds |-> IdleCall]
    /\ lastOk = Null
    /\ changes = 0
    /\ orch = IdleOrch
    /\ probe = Null

\* analyzeUserIntent(validatedArgs) up to its await of the executor, aiConfig
\* being what its loadAIConfig() returned or threw; loadAIConfig and the
\* isAIExecutionEnabled test come before the try block.
IntentWith(userRequest, aiConfig) ==
    IF aiConfig.threw # Null \/ ~isAIExecutionEnabled(aiConfig.config)
    THEN /\ orch' = IF aiConfig.threw # Null
                    THEN [IdleOrch EXCEPT !.op = "analyze_intent",
                             !.userRequest = userRequest, !.pc = "thrown",
                             !.error = OrchestrationError(aiConfig.threw)]
                    ELSE IntentEnds([IdleOrch EXCEPT !.op = "analyze_intent",
                                        !.userRequest = userRequest],
                                    [kind |-> "object", value |-> Fallback[userRequest]])
         /\ calls' = Live
         /\ UNCHANGED <<env, config, client, cache, now, lastOk, changes>>
    ELSE /\ executePrompt(1, IntentRequestOf[userRequest])
         /\ orch' = Resume([IdleOrch EXCEPT !.op = "analyze_intent",
                               !.userRequest = userRequest],
                           calls'[1])

\* toolChainOrchestrator({ operation: 'analyze_intent', userRequest }) up to its
\* first await of the executor.
analyze_intent(userRequest) ==
    /\ orch.pc # "awaiting"
    /\ IntentWith(userRequest, Loaded[env])

TickIntent == Advance(ClockStep, IntentTicks) /\ UNCHANGED orch /\ probe' = Null

NextIntent ==
    \/ \E userRequest \in IntentRequests : analyze_intent(userRequest) /\ probe' = Null
    \/ \E content \in IntentContents : ProviderAnswers(content) /\ probe' = Null
    \/ \E cause \in Causes : ProviderFails(cause) /\ probe' = Null
    \/ RetryTimerFires /\ probe' = Null
    \/ TickIntent

SpecIntent == InitIntent /\ [][NextIntent]_vars

(***************************************************************************)
(* toolChainOrchestrator({ operation: 'reality_check' }) and               *)
(* ({ operation: 'session_guidance' }), on requests with and without a     *)
(* session context.  Neither touches the executor.                         *)
(***************************************************************************)
SessionRequests ==
    {"analyze this project", "I am confused and stuck, please help",
     "Error: the build FAILED", "not working, what should I do? I don't know"}

SessionTools == <<"smart_score", "manage_todo">>

\* n occurrences of tool.
RECURSIVE Times(_, _)
Times(tool, n) == IF n = 0 THEN <<>> ELSE <<tool>> \o Times(tool, n - 1)

SessionContexts ==
    {Null} \cup
    {[conversationLength |-> n, previousActions |-> a, lastSuccessfulAction |-> l,
      stuckOnTask |-> t] :
        n \in {<<>>, <<0>>, <<16>>, <<20>>, <<21>>, <<25>>},
        a \in {<<>>, <<<<>>>>, <<Times(SessionTools[1], 3)>>,
               <<Times(SessionTools[1], 4) \o <<SessionTools[2]>>>>,
               <<Times(SessionTools[1], 4) \o Times(SessionTools[2], 5)>>},
        l \in {None, "smart_score"},
        t \in {None, "", "fix the build"}}

SessionArgs == {[userRequest |-> u, sessionContext |-> c] : u \in SessionRequests, c \in SessionContexts}

\* The request the dispatch layer has received and not yet passed on.
Received(args) ==
    [IdleOrch EXCEPT !.userRequest = args.userRequest, !.sessionContext = args.sessionContext]

InitSession ==
    /\ env \in PlanEnvs
    /\ config = Loaded[env].config
    /\ client = initializeClient(config, Null)
    /\ cache = EmptyMap
    /\ now = 0
    /\ calls = [c \in CallIds |-> IdleCall]
    /\ lastOk = Null
    /\ changes = 0
    /\ orch \in {Received(args) : args \in SessionArgs}
    /\ probe = Null

\* The reality_check and session_guidance cases of toolChainOrchestrator, on the
\* request received.
reality_check ==
    /\ orch.pc = "idle"
    /\ orch' = [orch EXCEPT !.op = "reality_check", !.pc = "returned",
                   !.realityCheck = performRealityCheck(
                       [userRequest |-> orch.userRequest,
                        sessionContext |-> orch.sessionContext])]
    /\ calls' = Live
    /\ UNCHANGED <<env, config, client, cache, now, lastOk, changes>>

session_guidance ==
    /\ orch.pc = "idle"
    /\ orch' = [orch EXCEPT !.op = "session_guidance", !.pc = "returned",
                   !.guidance = generateSessionGuidance(
                       [userRequest |-> orch.userRequest,
                        sessionContext |-> orch.sessionContext])]
    /\ calls' = Live
    /\ UNCHANGED <<env, config, client, cache, now, lastOk, changes>>

NextSession ==
    \/ reality_check /\ probe' = Null
    \/ session_guidance /\ probe' = Null

SpecSession == InitSession /\ [][NextSession]_vars

(***************************************************************************)
(* Properties of executePrompt.                                            *)
(***************************************************************************)

\* The calls that have begun: in progress, or ended in this state.
Begun == {c \in DOMAIN calls : calls[c].pc # "idle"}

\* The call asks what the last successful call asked, with the executor available
\* and caching enabled, and looks the cache up no later than that entry's deadline.
SameRequestAgain(call) ==
    /\ call.prior # Null
    /\ call.available
    /\ call.lookupCacheOn
    /\ call.prior.req = call.req
    /\ call.prior.model = call.model
    /\ call.lookupAt <= call.prior.deadline

\* C1. Idempotence: with caching enabled and the executor available, a call that
\* repeats the (prompt, model, options) of the last successful call before that
\* call's entry expires returns cached = true with the same content and makes no
\* network call.
C1_Idempotent ==
    \A c \in Begun :
        SameRequestAgain(calls[c]) =>
            /\ calls[c].pc = "returned"
            /\ calls[c].result.cached
            /\ calls[c].result.content = calls[c].prior.content
            /\ calls[c].netCalls = 0

\* A repeated request answered from the cache after time has passed.
C1_Witness ==
    \E c \in Begun :
        /\ SameRequestAgain(calls[c])
        /\ calls[c].lookupAt > 0
        /\ calls[c].pc = "returned"
        /\ calls[c].result.cached
        /\ calls[c].result.content = calls[c].prior.content

\* The stored result as a hit returns it.
AsHit(entry) == [entry.result EXCEPT !.cached = TRUE]

\* C9. The cache check precedes all other work: a call that begins with caching
\* enabled and an unexpired entry for its key returns that entry's result,
\* cached = true and the stored retryCount unchanged, without a network call,
\* whatever the reload and the availability check would do.
C9_CacheCheckFirst ==
    \A c \in Begun :
        (calls[c].heldCacheOn /\ calls[c].heldEntry # Null) =>
            /\ calls[c].pc = "returned"
            /\ calls[c].result = AsHit(calls[c].heldEntry)
            /\ calls[c].netCalls = 0

\* A call that began with caching enabled and an unexpired entry for its key, and
\* was refused as unavailable.
C9_Witness ==
    \E c \in Begun :
        /\ calls[c].heldCacheOn
        /\ calls[c].heldEntry # Null
        /\ calls[c].pc = "thrown"
        /\ calls[c].error.code = "AI_UNAVAILABLE"
        /\ calls[c].netCalls = 0

\* What executePrompt does guarantee of a hit: once the reload and the availability
\* check have passed, a call that finds an unexpired entry for its key with caching
\* enabled returns that entry's result, cached = true, without any attempt.
HitAfterChecks ==
    \A c \in Begun :
        (/\ calls[c].available
         /\ calls[c].lookupCacheOn
         /\ calls[c].lookupEntry # Null
         /\ ~(calls[c].lookupAt > calls[c].lookupEntry.expiry)) =>
            /\ calls[c].pc = "returned"
            /\ calls[c].result = AsHit(calls[c].lookupEntry)
            /\ calls[c].netCalls = 0
            /\ calls[c].attempts = 0

\* C2. A call whose every attempt failed has made exactly maxRetries + 1 attempts,
\* each a network call, before it failed for good, and fails with code
\* AI_EXECUTION_FAILED, retryable = false, originalError the cause of the attempt
\* that failed last; until then it has not failed.
C2_RetriesExhausted ==
    \A c \in Begun :
        /\ (calls[c].pc = "thrown" /\ calls[c].attempts > 0) =>
              /\ calls[c].attempts = calls[c].maxRetries + 1
              /\ calls[c].netCalls = calls[c].maxRetries + 1
              /\ calls[c].error.code = "AI_EXECUTION_FAILED"
              /\ calls[c].error.retryable = FALSE
              /\ calls[c].error.originalError = calls[c].lastCause
        /\ calls[c].pc \in {"inflight", "backoff"} =>
              calls[c].attempts <= calls[c].maxRetries + 1

\* A call that failed for good after seven attempts, and one after four (the
\* default of three retries).
C2_Witness ==
    \E c \in Begun :
        /\ calls[c].pc = "thrown"
        /\ calls[c].attempts = 7
        /\ calls[c].maxRetries = 6
        /\ calls[c].error.code = "AI_EXECUTION_FAILED"
        /\ calls[c].error.originalError = "HTTP 500"

\* The delay before the k-th retry, as the sequence 1s, 2s, 4s, 8s, 10s, 10s, ...
RetryDelayMs(k) ==
    IF k = 1 THEN 1000 ELSE IF k = 2 THEN 2000 ELSE IF k = 3 THEN 4000
    ELSE IF k = 4 THEN 8000 ELSE 10000

\* In every state: the delays a call has awaited or awaits are that sequence, and
\* it has at most one attempt in flight, none while it waits.
C3_Delays ==
    \A c \in Begun :
        /\ \A k \in 1..Len(calls[c].delays) : calls[c].delays[k] = RetryDelayMs(k)
        /\ Len(calls[c].delays) =
               IF calls[c].pc = "thrown" /\ calls[c].attempts > 0
               THEN calls[c].retryCount - 1
               ELSE calls[c].retryCount
        /\ calls[c].inFlight \in {0, 1}
        /\ calls[c].inFlight = 1 <=> calls[c].pc = "inflight"

\* In every step: an attempt is issued by a call that has none in flight, either
\* as it begins or when the delay set at its last failure has elapsed; and the
\* delay set at the k-th failure ends RetryDelayMs(k) after that failure.
C3_Step ==
    \A c \in DOMAIN calls :
        /\ calls'[c].netCalls > calls[c].netCalls /\ calls[c].pc \notin EndPcs =>
              /\ calls[c].inFlight = 0
              /\ calls[c].pc = "backoff" => now >= calls[c].wakeAt
              /\ calls[c].pc \in {"idle", "backoff"}
        /\ calls'[c].pc = "backoff" /\ calls[c].pc = "inflight" =>
              /\ calls'[c].retryCount = calls[c].retryCount + 1
              /\ calls'[c].wakeAt = now + RetryDelayMs(calls'[c].retryCount)

\* C3. The delay awaited before the k-th retry is min(1000 * 2^(k-1), 10000) ms,
\* that is 1s, 2s, 4s, 8s and 10s from then on, and the attempts of a call are
\* sequential: each starts after the one before it failed and its delay elapsed.
C3_Backoff == []C3_Delays /\ [][C3_Step]_vars

\* A call about to make its seventh attempt, the delays 1s, 2s, 4s, 8s, 10s, 10s
\* behind it.
C3_Witness ==
    \E c \in Begun :
        /\ calls[c].delays = <<1000, 2000, 4000, 8000, 10000, 10000>>
        /\ calls[c].pc = "inflight"
        /\ calls[c].attempts = 7

\* A step in which call c stores its result: its attempt succeeds with caching on.
Stores(c) ==
    /\ calls[c].pc = "inflight"
    /\ calls'[c].pc = "returned"
    /\ config.cacheEnabled

\* When the entry that call c stores makes the cache hold more than 100 entries,
\* no entry expired at that time is left, and every other entry that is not
\* expired is left as it was, so that a lookup of its key then returns its result.
C10_Step ==
    \A c \in DOMAIN calls :
        (Stores(c) /\ Cardinality(DOMAIN cache \cup {calls[c].cacheKey}) > 100) =>
            /\ \A k \in DOMAIN cache' : ~(now > cache'[k].expiry)
            /\ \A k \in DOMAIN cache \ {calls[c].cacheKey} :
                  ~(now > cache[k].expiry) =>
                      /\ k \in DOMAIN cache'
                      /\ cache'[k] = cache[k]
                      /\ getCachedResult(cache', k, now).result = AsHit(cache[k])

\* C10. Cache pruning: whenever a cache write makes the number of stored entries
\* exceed 100, every entry expired at that moment is removed and no unexpired
\* entry is, so each unexpired entry remains retrievable by a later identical call.
C10_Pruning == [][C10_Step]_vars

\* After the 101st prompt was stored and the expired entry of the first was
\* removed with others, the hundredth prompt is asked again and answered from
\* the cache.
C10_Witness ==
    /\ PruneKey[CacheCleanupSize + 1] \in DOMAIN cache
    /\ PruneKey[1] \notin DOMAIN cache
    /\ Cardinality(DOMAIN cache) < CacheCleanupSize
    /\ \E c \in Begun :
          /\ calls[c].pc = "returned"
          /\ calls[c].req.prompt = PromptNo(CacheCleanupSize)
          /\ calls[c].result.cached

(***************************************************************************)
(* Properties of generate_plan.  The five rules are written here as the    *)
(* specification words them, apart from validatePlanSafety.                *)
(***************************************************************************)

\* The error codes of the five rules, in the order of the rules.
PlanRuleCodes ==
    <<"PLAN_TOO_COMPLEX", "EXCLUDED_TOOLS_USED", "UNKNOWN_TOOLS", "INVALID_DEPENDENCY",
      "LOW_CONFIDENCE_PLAN">>

\* Some step of the plan depends on a stepId that no step of the plan has.
HasDanglingDependency(plan) ==
    \E i \in 1..Len(plan.steps) : \E j \in 1..Len(plan.steps[i].dependsOn) :
        \A k \in 1..Len(plan.steps) : plan.steps[k].stepId # plan.steps[i].dependsOn[j]

\* Rule n of the plan validator is violated by the plan under the constraints.
RuleViolated(n, plan, constraints) ==
    CASE n = 1 -> constraints # Null /\ Len(plan.steps) > constraints.maxSteps
      [] n = 2 -> /\ constraints # Null
                  /\ \E i \in 1..Len(plan.steps) :
                         plan.steps[i].toolName \in Range(constraints.excludeTools)
      [] n = 3 -> \E i \in 1..Len(plan.steps) : plan.steps[i].toolName \notin AVAILABLE_TOOLS
      [] n = 4 -> HasDanglingDependency(plan)
      [] n = 5 -> plan.confidence < 60

RulesViolated(plan, constraints) == {n \in 1..5 : RuleViolated(n, plan, constraints)}

\* The last generate_plan request got as far as running validatePlanSafety.
ValidatorRan == orch.planned # Null /\ orch.planned.checked # Null

\* The code of the error validatePlanSafety raised in the last request, or None.
RaisedCode == IF orch.planned.thrown = Null THEN None ELSE orch.planned.thrown.code

\* C4: whenever validatePlanSafety has been run on a plan and constraints, the
\* error it raised is that of the lowest-numbered rule the pair violates, and it
\* raised none when the pair violates no rule.
C4_RuleOrder ==
    ValidatorRan =>
        LET violated == RulesViolated(orch.planned.checked.plan,
                                      orch.planned.checked.constraints)
        IN  IF violated = {} THEN RaisedCode = None
            ELSE RaisedCode = PlanRuleCodes[CHOOSE n \in violated : \A m \in violated : n <= m]

\* C5: whenever generate_plan has returned a plan, validatePlanSafety was run on
\* that plan with the constraints of the request, and it accepts the pair.
C5_NeverUnvalidated ==
    orch.pc = "returned" =>
        /\ orch.plan # Null
        /\ orch.planned.checked = [plan |-> orch.plan, constraints |-> orch.constraints]
        /\ validatePlanSafety(orch.plan, orch.constraints) = Null

\* A plan was returned from a cached answer, under constraints, and has steps.
C5_Witness ==
    /\ orch.pc = "returned"
    /\ orch.constraints # Null
    /\ Len(orch.plan.steps) = 2
    /\ calls[1].pc = "returned"
    /\ calls[1].result.cached

\* C6: in a plan generate_plan has returned every id of every dependsOn is the
\* stepId of a step of the plan; and a plan with a dependsOn id that is no stepId
\* of it, once validatePlanSafety is run on it, is rejected with the error of one
\* of the five rules and is not returned.
C6_DependsOnResolved ==
    /\ orch.pc = "returned" => ~HasDanglingDependency(orch.plan)
    /\ ValidatorRan /\ HasDanglingDependency(orch.planned.checked.plan) =>
           /\ orch.pc = "thrown"
           /\ orch.plan = Null
           /\ orch.planned.thrown.kind = "McpAdrError"
           /\ RaisedCode \in Range(PlanRuleCodes)

\* A plan whose second step depends on a stepId the plan lacks was rejected for it.
C6_Witness ==
    /\ orch.pc = "thrown"
    /\ ValidatorRan
    /\ Len(orch.planned.checked.plan.steps) = 2
    /\ orch.planned.checked.plan.steps[1].dependsOn = <<>>
    /\ HasDanglingDependency(orch.planned.checked.plan)
    /\ RaisedCode = "INVALID_DEPENDENCY"

\* C7: a plan that violates none of the first four rules is rejected with
\* LOW_CONFIDENCE_PLAN when its confidence is below 0.6 and is returned otherwise;
\* and no plan with a confidence below 0.6 is ever returned.
C7_ConfidenceThreshold ==
    /\ ValidatorRan /\ RulesViolated(orch.planned.checked.plan,
                                     orch.planned.checked.constraints) \subseteq {5} =>
           IF orch.planned.checked.plan.confidence < 60
           THEN /\ RaisedCode = "LOW_CONFIDENCE_PLAN"
                /\ orch.pc = "thrown"
                /\ orch.plan = Null
           ELSE /\ RaisedCode = None
                /\ orch.pc = "returned"
                /\ orch.plan = orch.planned.checked.plan
    /\ orch.pc = "returned" => orch.plan.confidence >= 60

\* A plan of confidence 0.59 that violates no other rule was rejected.
C7_Witness ==
    /\ orch.pc = "thrown"
    /\ ValidatorRan
    /\ orch.planned.checked.plan.confidence = 59
    /\ Len(orch.planned.checked.plan.steps) > 0
    /\ RulesViolated(orch.planned.checked.plan, orch.planned.checked.constraints) = {5}
    /\ RaisedCode = "LOW_CONFIDENCE_PLAN"

\* C8: when validatePlanSafety rejects the plan, the error that reaches the
\* caller, of generateToolChainPlan or of toolChainOrchestrator, carries the code
\* of the rule that rejected it.
C8_DistinctCodes ==
    ValidatorRan /\ orch.planned.thrown # Null =>
        RaisedCode \in {orch.planned.threw.code, orch.error.code}


(***************************************************************************)
(* Properties of concurrent executePrompt calls.                           *)
(***************************************************************************)

\* Every call that is past a cache miss has issued a network attempt of its own,
\* and two calls in flight for one key have one attempt in flight each.
C11_OwnAttempts ==
    \A c \in DOMAIN calls :
        /\ calls[c].pc \in {"inflight", "backoff"} => calls[c].netCalls >= 1
        /\ calls[c].pc = "inflight" => calls[c].inFlight = 1
        /\ (calls[c].pc = "returned" /\ ~calls[c].result.cached) => calls[c].netCalls >= 1

\* The step in which call c returns what the provider answered: the result is its
\* own, the cache entry of its key becomes that result whatever was stored there,
\* no other key is touched, and no other call in progress is changed.
C11_Step ==
    \A c \in DOMAIN calls :
        Stores(c) =>
            /\ calls'[c].result.content \in Contents
            /\ ~calls'[c].result.cached
            /\ calls'[c].result.retryCount = calls[c].retryCount
            /\ cache' = MapSet(cache, calls[c].cacheKey,
                               [result |-> calls'[c].result,
                                expiry |-> now + config.cacheTTL * 1000])
            /\ \A d \in DOMAIN calls \ {c} : calls'[d] = Live[d]

\* C11: there is no request coalescing.  Calls in progress for the same key each
\* issue their own network attempt and each write the cache when they return;
\* the key then holds the one entry of the last writer, and each call returns the
\* result of its own attempt.
C11_NoCoalescing == []C11_OwnAttempts /\ [][C11_Step]_vars

\* A call returned its own result and replaced the unexpired, different entry
\* that a concurrent call for the same key had stored after this call's lookup.
C11_Witness ==
    \E c \in Begun :
        /\ calls[c].pc = "returned"
        /\ ~calls[c].result.cached
        /\ calls[c].replaced # Null
        /\ ~(now > calls[c].replaced.expiry)
        /\ calls[c].replaced.result.content # calls[c].result.content
        /\ cache[calls[c].cacheKey].result = calls[c].result


\* ---------------------------------------------------------------------------
\* Properties of isAvailable
\* ---------------------------------------------------------------------------

\* What isAvailable tests, on the executor as the call left it.
Ready == client # Null /\ config.executionMode = "full" /\ config.apiKey # ""

\* C12: isAvailable() returns true exactly when the client is initialized, the
\* mode is 'full' and the credential is non-empty, and in every other state it
\* returns false: it never throws.
C12_IsAvailable ==
    probe # Null => probe.threw = Null /\ probe.value = Ready

\* A call of isAvailable() in full mode, the credential gone from the
\* environment: loadAIConfig throws inside reloadConfigIfNeeded.
C12_Witness ==
    /\ probe # Null
    /\ probe.threw # Null
    /\ probe.threw.names = <<"OPENROUTER_API_KEY">>
    /\ StrOr(env["EXECUTION_MODE"], DefaultExecutionMode) = "full"
    /\ env["OPENROUTER_API_KEY"] = None

\* isAvailable(), when it returns, returns whether the executor is ready.
AvailableWhenReturned ==
    probe # Null /\ probe.threw = Null => probe.value = Ready


\* ---------------------------------------------------------------------------
\* Properties of the prompt-only mode
\* ---------------------------------------------------------------------------

\* The step sends a request of call c to the provider.
Issues(c) == calls'[c].netCalls > Live[c].netCalls

\* The step begins call c, and the execution mode executePrompt resolved for it
\* is prompt-only: the call throws AI_UNAVAILABLE with no attempt made.
PromptOnlyCall(c) ==
    Live[c].pc = "idle" /\ calls'[c].pc # "idle" /\ config'.executionMode = "prompt-only"
        => /\ calls'[c].pc = "thrown"
           /\ calls'[c].error.code = "AI_UNAVAILABLE"
           /\ calls'[c].attempts = 0
           /\ calls'[c].netCalls = 0

C13_Step ==
    \A c \in DOMAIN calls :
        /\ Issues(c) => config'.executionMode # "prompt-only"
        /\ PromptOnlyCall(c)

\* C13: while the execution mode the executor has resolved is prompt-only, no
\* operation of the executor sends a request to the provider: executePrompt
\* throws AI_UNAVAILABLE without an attempt or a retry, also on an executor that
\* was in full mode with a client before.
C13_NoNetworkInPromptOnly == [][C13_Step]_vars

\* A call waits for its backoff timer on an executor that has resolved
\* prompt-only mode since the call began and still holds the client built in
\* full mode: the retry that follows sends a request.
C13_Witness ==
    \E c \in DOMAIN calls :
        /\ calls[c].pc = "backoff"
        /\ now >= calls[c].wakeAt
        /\ config.executionMode = "prompt-only"
        /\ client # Null

\* A call begun in prompt-only mode throws AI_UNAVAILABLE and sends nothing.
PromptOnlyCallsRefused == [][\A c \in DOMAIN calls : PromptOnlyCall(c)]_vars


\* ---------------------------------------------------------------------------
\* Properties of the configuration functions
\* ---------------------------------------------------------------------------

\* The provider and the mode the environment selects.
SelectedProvider == IF env["AI_PROVIDER"] \in {None, ""} THEN "openrouter" ELSE env["AI_PROVIDER"]
SelectedMode == IF env["EXECUTION_MODE"] \in {None, ""} THEN "full" ELSE env["EXECUTION_MODE"]

\* The variables each provider requires, and those of them the environment lacks.
RequiredVars ==
    [openrouter |-> {"OPENROUTER_API_KEY"},
     openai |-> {"OPENAI_API_KEY"},
     azure |-> {"AZURE_OPENAI_ENDPOINT", "AZURE_OPENAI_API_KEY", "AZURE_OPENAI_DEPLOYMENT"}]

MissingRequired == {v \in RequiredVars[SelectedProvider] : env[v] \in {None, ""}}

LoadedNow == probe # Null /\ probe.op = "loadAIConfig"

\* C14: with EXECUTION_MODE = prompt-only, for every provider and every
\* combination of present and absent credential and endpoint variables,
\* loadAIConfig does not throw and returns a configuration of the selected
\* provider.
C14_PromptOnlyLoads ==
    LoadedNow /\ SelectedMode = "prompt-only"
        => /\ probe.threw = Null
           /\ probe.value # Null
           /\ probe.value.provider = SelectedProvider
           /\ probe.value.executionMode = "prompt-only"

\* Azure selected in prompt-only mode with none of its variables set: loaded.
C14_Witness ==
    /\ LoadedNow
    /\ SelectedMode = "prompt-only"
    /\ SelectedProvider = "azure"
    /\ MissingRequired = RequiredVars["azure"]
    /\ probe.threw = Null
    /\ probe.value.apiKey = ""

\* C15: in full mode, for every provider and every non-empty set of N required
\* variables that are missing, loadAIConfig throws one Error that names all N of
\* them and the provider; with none missing it does not throw.
C15_NamesAllMissing ==
    LoadedNow /\ SelectedMode = "full"
        => IF MissingRequired = {}
           THEN probe.threw = Null
           ELSE /\ probe.threw # Null
                /\ Range(probe.threw.names) = MissingRequired
                /\ Len(probe.threw.names) = Cardinality(MissingRequired)
                /\ probe.threw.provider = ProviderLabel([provider |-> SelectedProvider])
                /\ probe.threw.message[1] = probe.threw.provider
                /\ probe.threw.message[3] = probe.threw.names

\* Azure in full mode with its key set and its endpoint and deployment missing:
\* the Error names both.
C15_Witness ==
    /\ LoadedNow
    /\ SelectedMode = "full"
    /\ SelectedProvider = "azure"
    /\ probe.threw # Null
    /\ probe.threw.names = <<"AZURE_OPENAI_ENDPOINT", "AZURE_OPENAI_DEPLOYMENT">>

StructuredEnded ==
    orch.op = "executeStructuredPrompt" /\ orch.pc \in EndPcs /\ calls[1].pc \in EndPcs

\* The provider's answer (fresh or from the cache) came back, and what is
\* extracted from it is no JSON or is rejected by the caller's schema.
AnsweredBadly ==
    /\ calls[1].pc = "returned"
    /\ LET parsed == Json[Extract[calls[1].result.content]]
       IN  \/ parsed.threw # Null
           \/ /\ orch.schema # Null
              /\ ~(parsed.kind = "object" /\ orch.schema.required \subseteq DOMAIN parsed.value)

C17_Ended ==
    StructuredEnded =>
        /\ (orch.pc = "thrown" /\ orch.error.code = "AI_JSON_PARSE_ERROR") <=> AnsweredBadly
        /\ calls[1].pc = "thrown" =>
               /\ orch.pc = "thrown"
               /\ orch.error = calls[1].error
               /\ orch.error.code \in {"AI_UNAVAILABLE", "AI_EXECUTION_FAILED"}
        /\ AnsweredBadly =>
               /\ orch.error.retryable = FALSE
               /\ calls[1].inFlight = 0

\* The step in which a parse error is reported sends nothing to the provider.
C17_Step ==
    orch'.op = "executeStructuredPrompt" /\ orch'.pc = "thrown" /\ orch.pc # "thrown"
        /\ orch'.error.code = "AI_JSON_PARSE_ERROR" => ~Issues(1)

\* C17: executeStructuredPrompt raises AI_JSON_PARSE_ERROR exactly when the
\* provider answered and the extracted content fails JSON parsing or the
\* caller's schema; an unavailable executor and a failed transport reach the
\* caller as the errors executePrompt raised, never as a parse error, and a
\* parse failure is not reported as an execution error and starts no retry.
C17_ParseErrorOnly == []C17_Ended /\ [][C17_Step]_vars

\* A call with a schema got JSON that the schema rejects: AI_JSON_PARSE_ERROR.
C17_Witness ==
    /\ StructuredEnded
    /\ calls[1].pc = "returned"
    /\ ~calls[1].result.cached
    /\ orch.schema # Null
    /\ Json[Extract[calls[1].result.content]].threw = Null
    /\ orch.pc = "thrown"
    /\ orch.error.code = "AI_JSON_PARSE_ERROR"

\* The position of the bracket that closes the one opened before position j at
\* the given depth, 0 when there is none.
RECURSIVE CloserOf(_, _, _, _, _)
CloserOf(s, j, depth, open, close) ==
    IF j > Len(s) THEN 0
    ELSE IF CharAt(s, j) = open THEN CloserOf(s, j + 1, depth + 1, open, close)
    ELSE IF CharAt(s, j) = close
    THEN IF depth = 1 THEN j ELSE CloserOf(s, j + 1, depth - 1, open, close)
    ELSE CloserOf(s, j + 1, depth, open, close)

\* The balanced {...} and [...] substrings of text, as <<first, last>>.
BalancedSpans(text) ==
    ({<<i, CloserOf(text, i + 1, 1, "{", "}")>> : i \in Positions(text, "{")}
        \cup {<<i, CloserOf(text, i + 1, 1, "[", "]")>> : i \in Positions(text, "[")})
        \ {<<i, 0>> : i \in 1..Len(text)}

\* The largest of them (the leftmost of the largest), <<>> when there is none.
LargestBalanced(text) ==
    IF BalancedSpans(text) = {} THEN <<>>
    ELSE LET best == CHOOSE p \in BalancedSpans(text) :
                         \A q \in BalancedSpans(text) :
                             \/ p[2] - p[1] > q[2] - q[1]
                             \/ (p[2] - p[1] = q[2] - q[1] /\ p[1] <= q[1])
         IN  <<SubSeq(text, best[1], best[2])>>

\* The four extraction steps in the order given: fenced block, inline code span,
\* largest balanced substring, the text itself.
ExtractionInOrder(text) ==
    IF CodeBlockMatch(text) # <<>> /\ Len(CodeBlockMatch(text)[1]) > 0
    THEN Trim(CodeBlockMatch(text)[1])
    ELSE IF InlineCodeMatch(text) # <<>> /\ Len(InlineCodeMatch(text)[1]) > 0
    THEN Trim(InlineCodeMatch(text)[1])
    ELSE IF LargestBalanced(text) # <<>> THEN LargestBalanced(text)[1]
    ELSE text

\* A call without a schema has ended on an answer of the provider.
Answered == StructuredEnded /\ calls[1].pc = "returned" /\ orch.schema = Null

\* The data returned for a JSON value is the value, in whichever wrapping the
\* provider wrote it.
SameDataInEveryWrapping ==
    Answered =>
        \A t \in JsonTexts :
            calls[1].result.content \in Wrappings(t)
                => orch.pc = "returned" /\ orch.data = JSONParse(t).value

\* The call returns or throws as JSON.parse does on the text the four steps
\* yield.
ExtractsInOrder ==
    Answered =>
        LET claimed == JSONParse(ExtractionInOrder(Trim(calls[1].result.content)))
        IN  IF claimed.threw # Null THEN orch.pc = "thrown"
            ELSE orch.pc = "returned" /\ orch.data = claimed.value

\* C18: structured extraction yields the same parsed data for a JSON value
\* whether the answer holds it in a fenced json block, in single grave accents
\* or bare; the extraction steps are tried in the order fenced block, inline
\* code span, largest balanced {...} or [...] substring, the text itself.
C18_ExtractionEquivalent == SameDataInEveryWrapping /\ ExtractsInOrder

\* An answer that is a bare JSON string holding braces has ended in a parse
\* error.
C18_Witness ==
    /\ Answered
    /\ calls[1].result.content = "\"see {docs}\""
    /\ orch.pc = "thrown"
    /\ orch.error.code = "AI_JSON_PARSE_ERROR"

\* JSON objects and arrays come out the same from every wrapping.
ObjectsAndArraysAgree ==
    Answered =>
        \A t \in {u \in JsonTexts : JSONParse(u).kind \in {"object", "array"}} :
            calls[1].result.content \in Wrappings(t)
                => orch.pc = "returned" /\ orch.data = JSONParse(t).value


\* ---------------------------------------------------------------------------
\* Properties of analyze_intent
\* ---------------------------------------------------------------------------

\* An analyze_intent request has ended.
IntentEnded == orch.op = "analyze_intent" /\ orch.pc \in EndPcs

\* The environment leaves AI execution unavailable: prompt-only mode, or a
\* required credential is missing.
AIUnavailable == SelectedMode = "prompt-only" \/ MissingRequired # {}

\* The structured prompt of the request has failed in this state: executePrompt
\* threw, or the answer holds no JSON.
PromptFailed ==
    \/ calls[1].pc = "thrown"
    \/ calls[1].pc = "returned" /\ Json[Extract[calls[1].result.content]].threw # Null

\* C19: analyze_intent never fails because AI is unavailable or an AI execution
\* fails: with the executor unavailable (prompt-only mode, or credentials
\* missing) or the structured prompt failed, it returns the keyword-table
\* result; for 'analyze this project' with AI unavailable that is category
\* analysis, analyze_project_ecosystem among the suggested tools, confidence 0.7.
C19_AlwaysFallsBack ==
    /\ IntentEnded /\ (AIUnavailable \/ PromptFailed)
           => orch.pc = "returned" /\ orch.analysis = Fallback[orch.userRequest]
    /\ IntentEnded /\ AIUnavailable /\ orch.userRequest = "analyze this project"
           => /\ orch.pc = "returned"
              /\ orch.analysis.category = "analysis"
              /\ "analyze_project_ecosystem" \in Range(orch.analysis.suggestedTools)
              /\ orch.analysis.confidence = MatchedConfidence

\* Full mode without the credential: the request has ended in an error.
C19_Witness ==
    /\ IntentEnded
    /\ SelectedMode = "full"
    /\ MissingRequired # {}
    /\ orch.pc = "thrown"
    /\ orch.error.code = "ORCHESTRATION_ERROR"

\* Where loadAIConfig returns, the keyword-table result is returned in
\* prompt-only mode and after every failure of the structured prompt.
FallsBackWhenConfigLoads ==
    IntentEnded /\ (SelectedMode = "prompt-only" \/ PromptFailed)
        => orch.pc = "returned" /\ orch.analysis = Fallback[orch.userRequest]

\* analyze_intent has returned an analysis.
IntentReturned == IntentEnded /\ orch.pc = "returned"

\* C38: every tool name in the suggestedTools that analyze_intent returns is of
\* the closed tool vocabulary, on the AI path and on the keyword fallback alike.
C38_SuggestedToolsInVocabulary ==
    IntentReturned => Range(orch.analysis.suggestedTools) \subseteq AVAILABLE_TOOLS

\* The analysis the provider wrote has been returned, and it suggests a tool
\* outside the vocabulary.
C38_Witness ==
    /\ IntentReturned
    /\ calls[1].pc = "returned"
    /\ orch.analysis # Fallback[orch.userRequest]
    /\ "deploy_to_prod" \in Range(orch.analysis.suggestedTools)
    /\ "deploy_to_prod" \notin AVAILABLE_TOOLS

\* The keyword fallback suggests tools of the vocabulary only.
KeywordToolsInVocabulary ==
    /\ \A k \in DOMAIN keywordMap : Range(keywordMap[k].tools) \subseteq AVAILABLE_TOOLS
    /\ IntentReturned /\ orch.analysis = Fallback[orch.userRequest] =>
           Range(orch.analysis.suggestedTools) \subseteq AVAILABLE_TOOLS

\* The keyword fallback has returned an analysis that suggests tools.
KeywordToolsReturned ==
    /\ IntentReturned
    /\ orch.analysis = Fallback[orch.userRequest]
    /\ orch.analysis.suggestedTools # <<>>

\* The requests in lower case.
LowerCased ==
    [u \in IntentRequests |->
        CASE u = "Generate ADR todo, deploy and score security"
                 -> "generate adr todo, deploy and score security"
          [] u = "Troubleshoot the deploy" -> "troubleshoot the deploy"
          [] OTHER -> u]

Occurs(word, text) ==
    \E i \in 1..Len(text) :
        i + Len(word) - 1 <= Len(text) /\ SubSeq(text, i, i + Len(word) - 1) = word

\* The entries of the keyword table whose keyword occurs in the request, the
\* tools they map to, and the place of a tool's first mention among them.
MatchedEntries(u) ==
    {k \in 1..Len(keywordMap) : Occurs(keywordMap[k].keyword, LowerCased[u])}

MatchedTools(u) == UNION {Range(keywordMap[k].tools) : k \in MatchedEntries(u)}

FirstMention(t, u) ==
    SetMin({p[1] * 10 + p[2] :
               p \in {q \in MatchedEntries(u) \X (1..3) :
                         /\ q[2] <= Len(keywordMap[q[1]].tools)
                         /\ keywordMap[q[1]].tools[q[2]] = t}})

CategoryOf(u) ==
    IF Occurs("generate", LowerCased[u]) \/ Occurs("create", LowerCased[u])
    THEN <<"generation", "moderate">>
    ELSE IF Occurs("troubleshoot", LowerCased[u]) \/ Occurs("debug", LowerCased[u])
    THEN <<"troubleshooting", "complex">>
    ELSE IF Occurs("deploy", LowerCased[u]) \/ Occurs("release", LowerCased[u])
    THEN <<"deployment", "complex">>
    ELSE <<"analysis", "simple">>

\* The keyword fallback answered the request.
FellBack == IntentEnded /\ orch.pc = "returned" /\ SelectedMode = "prompt-only"

\* C20: the keyword fallback returns as suggestedTools the deduplicated union,
\* in keyword-table order, of the tools of every keyword occurring in the
\* lower-cased request, cut to at most 5; confidence 0.7 if a keyword matched
\* and 0.3 otherwise; category and complexity generation/moderate for generate
\* or create, else troubleshooting/complex for troubleshoot or debug, else
\* deployment/complex for deploy or release, else analysis/simple.
C20_KeywordFallback ==
    FellBack =>
        LET u == orch.userRequest
            tools == orch.analysis.suggestedTools
        IN  /\ Range(tools) \subseteq MatchedTools(u)
            /\ Len(tools) = Min(5, Cardinality(MatchedTools(u)))
            /\ \A i, j \in 1..Len(tools) :
                   i < j => FirstMention(tools[i], u) < FirstMention(tools[j], u)
            /\ \A t \in MatchedTools(u) \ Range(tools) :
                   \A i \in 1..Len(tools) : FirstMention(tools[i], u) < FirstMention(t, u)
            /\ orch.analysis.confidence = IF MatchedEntries(u) # {} THEN 70 ELSE 30
            /\ <<orch.analysis.category, orch.analysis.complexity>> = CategoryOf(u)

\* A request in mixed case that matches keywords mapping to more than five
\* tools got five of them.
C20_Witness ==
    /\ FellBack
    /\ orch.userRequest = "Generate ADR todo, deploy and score security"
    /\ Cardinality(MatchedTools(orch.userRequest)) > 5
    /\ Len(orch.analysis.suggestedTools) = 5
    /\ orch.analysis.category = "generation"


\* ---------------------------------------------------------------------------
\* Properties of reality_check and session_guidance
\* ---------------------------------------------------------------------------

\* The session requests in lower case.
SessionLowerCased ==
    [u \in SessionRequests |->
        CASE u = "I am confused and stuck, please help"
                 -> "i am confused and stuck, please help"
          [] u = "Error: the build FAILED" -> "error: the build failed"
          [] u = "not working, what should I do? I don't know"
                 -> "not working, what should i do? i don't know"
          [] OTHER -> u]

\* The signals of the request received: the conversation is longer than 20, the
\* tools used more than 3 times, the confusion keywords in the request text, and
\* a task the session is stuck on.
LongSignal ==
    /\ orch.sessionContext # Null
    /\ orch.sessionContext.conversationLength # <<>>
    /\ orch.sessionContext.conversationLength[1] > 20

OverusedTools ==
    IF orch.sessionContext = Null \/ orch.sessionContext.previousActions = <<>> THEN {}
    ELSE LET used == orch.sessionContext.previousActions[1]
         IN  {t \in Range(used) : Cardinality({j \in 1..Len(used) : used[j] = t}) > 3}

KeywordsInRequest ==
    {k \in Range(confusionKeywords) : Occurs(k, SessionLowerCased[orch.userRequest])}

StuckSignal ==
    orch.sessionContext # Null /\ orch.sessionContext.stuckOnTask \notin {None, ""}

AdditiveScore ==
    (IF LongSignal THEN 2 ELSE 0) + Cardinality(OverusedTools)
        + Cardinality(KeywordsInRequest) + (IF StuckSignal THEN 3 ELSE 0)

RiskBucket == IF AdditiveScore >= 5 THEN "high" ELSE IF AdditiveScore >= 2 THEN "medium" ELSE "low"

RealityChecked == orch.op = "reality_check" /\ orch.pc = "returned"

\* C21: performRealityCheck scores +2 for a conversation longer than 20, +1 for
\* each distinct tool occurring more than 3 times in previousActions, +1 for
\* each confusion keyword in the request text and +3 for a task the session is
\* stuck on; the risk is high from 5, medium from 2, else low.  A conversation of
\* 25 with no other signal gives at least medium, and with stuckOnTask high.
C21_RiskScore ==
    RealityChecked =>
        /\ orch.realityCheck.hallucinationRisk = RiskBucket
        /\ LongSignal => orch.realityCheck.hallucinationRisk \in {"medium", "high"}
        /\ LongSignal /\ StuckSignal => orch.realityCheck.hallucinationRisk = "high"

\* conversationLength 25 and a stuck task, no keyword, no repetition: high.
C21_Witness ==
    /\ RealityChecked
    /\ orch.sessionContext # Null
    /\ orch.sessionContext.conversationLength = <<25>>
    /\ orch.sessionContext.stuckOnTask = "fix the build"
    /\ OverusedTools = {}
    /\ KeywordsInRequest = {}
    /\ orch.realityCheck.hallucinationRisk = "high"

Guided == orch.op = "session_guidance" /\ orch.pc = "returned"

\* C22: generateSessionGuidance gives status critical for risk high, concerning
\* for medium and healthy for low; humanInterventionNeeded is true exactly when
\* the status is critical, and then the recommended next step is a fresh session
\* that reloads the project context.
C22_StatusFromRisk ==
    Guided =>
        /\ orch.guidance.sessionStatus =
               (CASE RiskBucket = "high" -> "critical"
                  [] RiskBucket = "medium" -> "concerning"
                  [] RiskBucket = "low" -> "healthy")
        /\ orch.guidance.humanInterventionNeeded <=> orch.guidance.sessionStatus = "critical"
        /\ orch.guidance.sessionStatus = "critical"
               => orch.guidance.recommendedNextStep
                      = "Start fresh session with analyze_project_ecosystem"

\* A critical session: intervention needed, fresh session recommended.
C22_Witness ==
    /\ Guided
    /\ RiskBucket = "high"
    /\ orch.guidance.sessionStatus = "critical"
    /\ orch.guidance.humanInterventionNeeded


\* ---------------------------------------------------------------------------
\* Properties of the plans generate_plan returns
\* ---------------------------------------------------------------------------

\* generate_plan has returned a plan to its caller.
PlanReturned == orch.op = "generate_plan" /\ orch.pc = "returned"

\* C23: every plan generate_plan returns has at least one step.
C23_StepsNonEmpty == PlanReturned => Len(orch.plan.steps) > 0

\* A plan without steps, written by the provider, has been returned.
C23_Witness ==
    /\ PlanReturned
    /\ orch.plan.steps = <<>>
    /\ calls[1].pc = "returned"
    /\ ~calls[1].result.cached

\* C24: in every plan generate_plan returns, no two steps share a stepId.
C24_StepIdsUnique ==
    PlanReturned =>
        \A i, j \in 1..Len(orch.plan.steps) :
            orch.plan.steps[i].stepId = orch.plan.steps[j].stepId => i = j

\* A plan whose two steps have the same stepId has been returned.
C24_Witness ==
    /\ PlanReturned
    /\ Len(orch.plan.steps) = 2
    /\ orch.plan.steps[1].stepId = orch.plan.steps[2].stepId

\* The tools a plan names, in its steps and in its fallbackSteps.
StepTools(plan) == {plan.steps[i].toolName : i \in 1..Len(plan.steps)}

FallbackTools(plan) ==
    IF "fallbackSteps" \in DOMAIN plan
    THEN {plan.fallbackSteps[i].toolName : i \in 1..Len(plan.fallbackSteps)} ELSE {}

\* The tools the caller of the last request excluded.
ExcludedByCaller == IF orch.constraints = Null THEN {} ELSE Range(orch.constraints.excludeTools)

\* C31: every tool named in a plan generate_plan returns, in steps and in
\* fallbackSteps alike, is of the closed tool vocabulary and is not among the
\* caller's excludeTools.
C31_ToolsAllowed ==
    PlanReturned =>
        StepTools(orch.plan) \cup FallbackTools(orch.plan)
            \subseteq AVAILABLE_TOOLS \ ExcludedByCaller

\* A plan whose fallbackSteps name a tool outside the vocabulary, which the
\* caller excluded as well, has been returned.
C31_Witness ==
    /\ PlanReturned
    /\ orch.constraints # Null
    /\ FallbackTools(orch.plan) = {"deploy_to_prod"}
    /\ "deploy_to_prod" \in ExcludedByCaller
    /\ "deploy_to_prod" \notin AVAILABLE_TOOLS

\* The tools of the steps themselves are of the vocabulary and not excluded.
StepToolsAllowed ==
    PlanReturned => StepTools(orch.plan) \subseteq AVAILABLE_TOOLS \ ExcludedByCaller

\* A returned plan names an excluded tool of the vocabulary in its fallbackSteps.
ExcludedFallbackReturned ==
    /\ PlanReturned
    /\ FallbackTools(orch.plan) = {"smart_git_push"}
    /\ "smart_git_push" \in ExcludedByCaller

\* The positions of the steps that step i of the plan depends on.
DependsOnSteps(plan, i) ==
    {j \in 1..Len(plan.steps) : plan.steps[j].stepId \in Range(plan.steps[i].dependsOn)}

\* The steps reached from the steps of S by at most n dependsOn references.
RECURSIVE ReachedWithin(_, _, _)
ReachedWithin(plan, S, n) ==
    IF n = 0 THEN S
    ELSE ReachedWithin(plan, S \cup UNION {DependsOnSteps(plan, i) : i \in S}, n - 1)

\* Some chain of dependsOn references leads from a step back to that step.
HasCycle(plan) ==
    \E i \in 1..Len(plan.steps) :
        i \in ReachedWithin(plan, DependsOnSteps(plan, i), Len(plan.steps))

\* C32: the dependency graph of every plan generate_plan returns is acyclic: no
\* step depends on itself, and no chain of dependsOn references leads back to
\* the step it starts at.
C32_Acyclic == PlanReturned => ~HasCycle(orch.plan)

\* A plan whose one step depends on itself has been returned.
C32_Witness ==
    /\ PlanReturned
    /\ Len(orch.plan.steps) = 1
    /\ orch.plan.steps[1].dependsOn = <<orch.plan.steps[1].stepId>>

\* A plan whose two steps depend on each other has been returned.
MutualCycleReturned ==
    /\ PlanReturned
    /\ orch.plan.steps = MutualSteps
    /\ ~HasDanglingDependency(orch.plan)

\* The maximum in effect for the last request: that of the caller when it gave
\* one other than 0, the default of 10 otherwise.
EffectiveMaxSteps ==
    IF orch.constraints = Null \/ orch.constraints.maxSteps = 0 THEN DefaultMaxSteps
    ELSE orch.constraints.maxSteps

\* C36: the default maximum of 10 steps applies when the caller gives none: with
\* the constraints left out, or with maxSteps 0, generate_plan never returns a
\* plan of more steps than the maximum in effect.
C36_DefaultMaxSteps == PlanReturned => Len(orch.plan.steps) <= EffectiveMaxSteps

\* A plan of eleven steps has been returned to a caller that gave no constraints.
C36_Witness ==
    /\ PlanReturned
    /\ orch.constraints = Null
    /\ Len(orch.plan.steps) = DefaultMaxSteps + 1

\* A plan of eleven steps has been returned to a caller that gave maxSteps 0.
ElevenStepsUnderZero ==
    /\ PlanReturned
    /\ orch.constraints # Null
    /\ orch.constraints.maxSteps = 0
    /\ Len(orch.plan.steps) = DefaultMaxSteps + 1

\* The maximum holds for callers that gave constraints with a maxSteps other than
\* 0, or with maxSteps left out.
MaxStepsHoldsWhenGiven ==
    PlanReturned /\ orch.constraints # Null /\ orch.constraints.maxSteps # 0 =>
        Len(orch.plan.steps) <= orch.constraints.maxSteps


\* ---------------------------------------------------------------------------
\* Properties of the cache across configuration changes
\* ---------------------------------------------------------------------------

\* Call c has returned a cache hit whose result was built under a configuration
\* other than the one the executor holds.
StaleHit(c) ==
    /\ calls[c].pc = "returned"
    /\ calls[c].result.cached
    /\ calls[c].result.madeUnder # config

\* C25: the cache is cleared on configuration change: after a reload on drift or
\* an updateConfig that changes the configuration, no result cached under the
\* previous configuration is returned as a cache hit.
C25_ClearedOnChange == \A c \in DOMAIN calls : ~StaleHit(c)

\* The mechanism the sentence names: a step that changes the configuration
\* leaves the cache empty.
CacheEmptiedWithConfig == [][config' # config => cache' = EmptyMap]_vars

\* After the credential was rotated in the environment, the reload replaced the
\* configuration and the call was answered from the cache of the old one.
C25_Witness ==
    \E c \in DOMAIN calls :
        /\ StaleHit(c)
        /\ config.apiKey = "sk-2"
        /\ calls[c].result.madeUnder.apiKey = "sk-1"

\* The same after updateConfig({ maxRetries }): no drift, so no reload either.
StaleHitAfterUpdate ==
    \E c \in DOMAIN calls :
        /\ StaleHit(c)
        /\ config.apiKey = calls[c].result.madeUnder.apiKey
        /\ config.maxRetries # calls[c].result.madeUnder.maxRetries

\* A hit is always the entry the lookup found: nothing else produces one.
HitsOnlyFromEntries ==
    \A c \in DOMAIN calls :
        calls[c].pc = "returned" /\ calls[c].result.cached => calls[c].lookupEntry # Null

\* ---------------------------------------------------------------------------
\* Properties of the cache key
\* ---------------------------------------------------------------------------

\* Call c was answered from the cache.
Hit(c) == calls[c].pc = "returned" /\ calls[c].result.cached

\* Call c found, under its key, the result of the last successful call.
FoundLast(c) ==
    /\ Hit(c)
    /\ calls[c].prior # Null
    /\ calls[c].prior.key = calls[c].cacheKey
    /\ calls[c].prior.content = calls[c].result.content

\* C29: a cache hit only returns a result produced by a call with the same
\* prompt, model and options: requests that differ in any of them never share a
\* cache key, so none is answered with the cached result of another.
C29_HitAnswersSameRequest ==
    \A c \in DOMAIN calls :
        FoundLast(c) => /\ calls[c].prior.req = calls[c].req
                        /\ calls[c].prior.model = calls[c].model

\* A call was answered with the result cached for a different prompt.
C29_Witness ==
    \E c \in DOMAIN calls :
        /\ FoundLast(c)
        /\ calls[c].prior.req.prompt # calls[c].req.prompt
        /\ calls[c].prior.req.options = calls[c].req.options
        /\ calls[c].prior.model = calls[c].model

\* ---------------------------------------------------------------------------
\* Properties of generate_plan and the knowledge graph
\* ---------------------------------------------------------------------------

\* The generate_plan request has ended and the knowledge graph rejected a call.
KgRejected ==
    /\ orch.op = "generate_plan"
    /\ orch.pc \in EndPcs
    /\ "rejects" \in {orch.kg.createIntent, orch.kg.addToolExecution}

\* generateToolChainPlan has returned a plan that passed the safety validation.
PlanValidated == orch.planned # Null /\ orch.planned.threw = Null

\* C26: the calls to the knowledge graph around generate_plan are fire-and-forget:
\* their failure never is the error of the request, and a plan that was generated
\* and validated is returned whatever they did.
C26_PersistenceNotRequired ==
    orch.op = "generate_plan" /\ orch.pc \in EndPcs =>
        /\ orch.pc = "thrown" => orch.error # OrchestrationError(KgFailure)
        /\ PlanValidated => orch.pc = "returned" /\ orch.plan = orch.planned.plan

\* A plan was generated and validated, addToolExecution rejected, and the
\* request ended with the rejection as an ORCHESTRATION_ERROR.
C26_Witness ==
    /\ KgRejected
    /\ orch.kg.createIntent = "resolves"
    /\ PlanValidated
    /\ orch.pc = "thrown"
    /\ orch.error.code = "ORCHESTRATION_ERROR"
    /\ orch.error = OrchestrationError(KgFailure)

\* createIntent rejected: the request ended before any plan was asked for.
IntentRejectedBeforePlanning ==
    /\ KgRejected
    /\ orch.kg.createIntent = "rejects"
    /\ orch.pc = "thrown"
    /\ orch.planned = Null
    /\ orch.error = OrchestrationError(KgFailure)

\* With a knowledge graph that records both calls, every validated plan is returned.
RecordedPlansReturned ==
    orch.op = "generate_plan" /\ orch.pc \in EndPcs /\ orch.kg = Recorded /\ PlanValidated
        => orch.pc = "returned" /\ orch.plan = orch.planned.plan

\* ---------------------------------------------------------------------------
\* Properties of the JSON generate_plan parses
\* ---------------------------------------------------------------------------

\* The generate_plan request has ended on a response that executeStructuredPrompt
\* accepted: the JSON it extracted from the content parsed.
PlanResponseAccepted ==
    /\ orch.op = "generate_plan"
    /\ orch.pc \in EndPcs
    /\ orch.planned # Null
    /\ calls[1].pc = "returned"
    /\ StructuredResult(calls[1].result, Null).threw = Null

\* The response with the extracted JSON alone as its content.
Unwrapped(result) == [result EXCEPT !.content = Extract[result.content]]

\* C30: generate_plan parses the JSON the structured-prompt extraction accepted:
\* on a response holding a plan in a fenced block, in backticks or in prose, it
\* ends as it does on the unwrapped JSON of that response.
C30_ParsesExtractedJson ==
    PlanResponseAccepted =>
        orch.planned = generateToolChainPlan(
                           StructuredResult(Unwrapped(calls[1].result), Null), orch.constraints)

\* A valid plan came wrapped, executeStructuredPrompt extracted and parsed it,
\* and the request ended in PLANNING_FAILED, while the unwrapped plan is returned.
C30_Witness ==
    /\ PlanResponseAccepted
    /\ Extract[calls[1].result.content] # calls[1].result.content
    /\ orch.pc = "thrown"
    /\ orch.planned.threw.code = "PLANNING_FAILED"
    /\ generateToolChainPlan(StructuredResult(Unwrapped(calls[1].result), Null),
                             orch.constraints).threw = Null

\* On a response that is the JSON alone, extraction changes nothing.
BareJsonUnchanged ==
    PlanResponseAccepted /\ Extract[calls[1].result.content] = calls[1].result.content
        => orch.planned = generateToolChainPlan(StructuredResult(calls[1].result, Null),
                                                orch.constraints)

\* ---------------------------------------------------------------------------
\* Properties of executePromptWithFallback
\* ---------------------------------------------------------------------------

\* The executePromptWithFallback request has ended.
FallbackEnded == orch.op = "executePromptWithFallback" /\ orch.pc \in EndPcs

\* The executor refused or gave up: it was unavailable, or executePrompt threw
\* AI_UNAVAILABLE or AI_EXECUTION_FAILED.
ExecutorFailed ==
    \/ orch.available = <<FALSE>>
    \/ calls[1].pc = "thrown" /\ Degrades(calls[1].error)

\* C28: executePromptWithFallback never throws for availability or execution
\* failures: when the executor is unavailable or executePrompt throws
\* AI_UNAVAILABLE or AI_EXECUTION_FAILED it returns mode prompt-only with the
\* original prompt as content; every other error is re-thrown.
C28_DegradesToPrompt ==
    FallbackEnded =>
        /\ ExecutorFailed =>
              orch.pc = "returned" /\ orch.response = PromptOnly(orch.userRequest)
        /\ calls[1].pc = "thrown" /\ ~Degrades(calls[1].error) =>
              orch.pc = "thrown" /\ orch.error = calls[1].error
        /\ orch.pc = "thrown" => ~Degrades(orch.error)

\* The attempts of the call were exhausted and the runner returned the prompt.
C28_Witness ==
    /\ FallbackEnded
    /\ calls[1].pc = "thrown"
    /\ calls[1].error.code = "AI_EXECUTION_FAILED"
    /\ orch.pc = "returned"
    /\ orch.response = PromptOnly(calls[1].req.prompt)

\* An error of another kind went through the runner.
OtherErrorRethrown ==
    /\ FallbackEnded
    /\ calls[1].pc = "thrown"
    /\ calls[1].error.code = "AI_UNEXPECTED_ERROR"
    /\ orch.pc = "thrown"

\* The executor was unavailable and was not called.
DegradedWithoutCall ==
    /\ FallbackEnded
    /\ orch.available = <<FALSE>>
    /\ calls[1].pc = "idle"
    /\ orch.pc = "returned"
    /\ orch.response.mode = "prompt-only"

\* ---------------------------------------------------------------------------
\* Properties of the output channels
\* ---------------------------------------------------------------------------

\* The lines the last operation wrote to stdout.
OnStdout ==
    IF probe = Null THEN {}
    ELSE {i \in DOMAIN probe.written : probe.written[i].stream = "stdout"}

\* C27: diagnostic output never shares the channel of the protocol responses: no
\* operation of the executor (construction in any mode, reload, execution) and
\* no method of the logger at any level writes to stdout.
C27_NoStdout == OnStdout = {}

\* The executor was constructed in prompt-only mode and wrote its message with
\* console.log.
C27_Witness ==
    /\ probe # Null
    /\ probe.op = "constructor"
    /\ config.executionMode = "prompt-only"
    /\ OnStdout # {}

\* A reload on drift announces itself on stdout, too.
ReloadOnStdout ==
    /\ probe # Null
    /\ probe.op \in {"executePrompt", "isAvailable"}
    /\ \E i \in OnStdout : probe.written[i].text = "AI configuration changed, reinitializing..."

\* The logger writes to stderr only, and writes what its level lets through.
LoggerOnStderr ==
    probe # Null /\ probe.op = "log" =>
        \A i \in DOMAIN probe.written : probe.written[i].stream = "stderr"

LoggerWrote ==
    /\ probe # Null
    /\ probe.op = "log"
    /\ probe.written # <<>>

\* In full mode with a client, construction writes to stderr only.
FullModeConstructionOnStderr ==
    probe # Null /\ probe.op = "constructor" /\ probe.threw = Null
                 /\ isAIExecutionEnabled(config) => OnStdout = {}

\* ---------------------------------------------------------------------------
\* Properties of the configuration the executor holds
\* ---------------------------------------------------------------------------

\* The caller has read the configuration after an updateConfig, with no change
\* of the environment since.
ReadAfterUpdate == probe # Null /\ probe.op = "getConfig" /\ orch.op = "updateConfig"

\* C33: after updateConfig(partial), getConfig() returns the previous
\* configuration with the fields of partial overridden, and goes on doing so
\* across isAvailable and executePrompt calls while the environment does not
\* change, until the next updateConfig.
C33_UpdateKept == ReadAfterUpdate => probe.value = orch.data

\* The caller set defaultModel, the environment is as it was, and getConfig
\* returns the model of the environment again.
C33_Witness ==
    /\ ReadAfterUpdate
    /\ env \in InitialEnvs
    /\ orch.data.defaultModel = "gpt-4o"
    /\ probe.value.defaultModel = DefaultModel

\* The fields the reload compares are the same in two configurations.
SameSalient(a, b) ==
    a.apiKey = b.apiKey /\ a.executionMode = b.executionMode /\ a.defaultModel = b.defaultModel

\* An update that leaves the compared fields as the environment gives them is
\* kept.
UpdateKeptWithoutDrift ==
    ReadAfterUpdate /\ Loaded[env].threw = Null /\ SameSalient(orch.data, Loaded[env].config)
        => probe.value = orch.data

\* Such an update has been read back after a call of executePrompt.
KeptUpdateRead ==
    /\ ReadAfterUpdate
    /\ orch.data.maxRetries = 0
    /\ probe.value = orch.data
    /\ cache # EmptyMap

\* This step is a call of isAvailable, or the beginning of an executePrompt call.
Invoked ==
    \/ probe' # Null /\ probe'.op = "isAvailable"
    \/ \E c \in DOMAIN calls : Live[c].pc = "idle" /\ calls'[c].pc # "idle"

\* The configuration the environment resolves to differs from the one held in
\* the credential, the execution mode or the default model.
Drifted == Loaded[env].threw = Null /\ ~SameSalient(config, Loaded[env].config)

\* The client built for a configuration.
ClientFor(cfg) == [provider |-> cfg.provider, apiKey |-> cfg.apiKey, model |-> cfg.defaultModel]

C34_Step ==
    IF Invoked /\ Drifted
    THEN /\ config' = Loaded[env].config
         /\ isAIExecutionEnabled(config') /\ ~validateAIConfigThrows(config')
                => client' = ClientFor(config')
         /\ \A c \in DOMAIN calls :
                calls'[c].netCalls > Live[c].netCalls => client' = ClientFor(config')
    ELSE env' = env /\ changes' = changes => config' = config /\ client' = client

NoReloadWithoutDrift ==
    /\ probe # Null /\ probe.op = "isAvailable"
    /\ config.maxRetries = 0
    /\ Loaded[env].threw = Null
    /\ Loaded[env].config.maxRetries # 0

\* ---------------------------------------------------------------------------
\* Properties of the numeric settings loadAIConfig reads
\* ---------------------------------------------------------------------------

\* The text is a number: digits, with at most two decimals after a dot.
IsNumber(text) ==
    /\ text # None
    /\ DigitRun(text, 1) > 0
    /\ \/ DigitRun(text, 1) = Len(text)
       \/ /\ CharAt(text, DigitRun(text, 1) + 1) = "."
          /\ DigitRun(text, DigitRun(text, 1) + 2) \in 1..2
          /\ DigitRun(text, 1) + 1 + DigitRun(text, DigitRun(text, 1) + 2) = Len(text)

\* The number a text holds, as an integer and in hundredths.
IntegerOf(text) == DigitsValue(text, 1, DigitRun(text, 1))

HundredthsOf(text) ==
    LET n == DigitRun(text, 1)
        m == Len(text) - n - 1
    IN  100 * DigitsValue(text, 1, n)
            + (IF m = 1 THEN 10 * DigitsValue(text, n + 2, 1)
               ELSE IF m = 2 THEN DigitsValue(text, n + 2, 2) ELSE 0)

\* The numeric settings: the variable, the field, its default, and whether the
\* field is held in hundredths.
NumericSettings ==
    {<<"AI_TIMEOUT", "timeout", DefaultTimeout, FALSE>>,
     <<"AI_MAX_RETRIES", "maxRetries", DefaultMaxRetries, FALSE>>,
     <<"AI_TEMPERATURE", "temperature", DefaultTemperature, TRUE>>,
     <<"AI_MAX_TOKENS", "maxTokens", DefaultMaxTokens, FALSE>>,
     <<"AI_CACHE_TTL", "cacheTTL", DefaultCacheTTL, FALSE>>}

\* What the setting should load as: the number of the variable, or the default
\* when the variable is absent or no number.
Expected(setting) ==
    IF ~IsNumber(env[setting[1]]) THEN setting[3]
    ELSE IF setting[4] THEN HundredthsOf(env[setting[1]])
    ELSE IntegerOf(env[setting[1]])

\* C35: loadAIConfig takes timeout, maxRetries, temperature, maxTokens and
\* cacheTTL from the environment whenever the variable holds a number, the
\* value 0 included, and uses the default only when the variable is absent or
\* is not a number.
C35_NumbersFromEnv ==
    LoadedNow /\ probe.threw = Null =>
        \A setting \in NumericSettings : probe.value[setting[2]] = Expected(setting)

\* AI_TEMPERATURE=0 and AI_MAX_RETRIES=0 have loaded as the defaults.
C35_Witness ==
    /\ LoadedNow /\ probe.threw = Null
    /\ env["AI_TEMPERATURE"] = "0" /\ probe.value.temperature = DefaultTemperature
    /\ env["AI_MAX_RETRIES"] = "0" /\ probe.value.maxRetries = DefaultMaxRetries

\* Numbers other than 0 are taken, and what is absent or no number gives the
\* default.
NonZeroNumbersFromEnv ==
    LoadedNow /\ probe.threw = Null =>
        \A setting \in NumericSettings :
            env[setting[1]] # "0" => probe.value[setting[2]] = Expected(setting)

\* Numbers have been taken from the environment.
NumbersLoaded ==
    /\ LoadedNow /\ probe.threw = Null
    /\ env["AI_TEMPERATURE"] = "0.5" /\ probe.value.temperature = 50
    /\ env["AI_TIMEOUT"] = "7" /\ probe.value.timeout = 7
    /\ env["AI_CACHE_TTL"] = "abc" /\ probe.value.cacheTTL = DefaultCacheTTL

\* ---------------------------------------------------------------------------
\* Properties of the logger's level
\* ---------------------------------------------------------------------------

\* The level comes before the configured one in the order of the levels.
Below(level, configured) ==
    \E i, j \in DOMAIN LogLevels : LogLevels[i] = level /\ LogLevels[j] = configured /\ i < j

\* The last method of the logger wrote to the console.
WroteToConsole == probe # Null /\ probe.op \in {"log", "logEnhancedError"} /\ probe.written # <<>>

\* C37: EnhancedLogger respects the configured level in every logging method:
\* an entry of a level below the configured one is never written to the console
\* nor added to the buffer, the entries logEnhancedError makes from an error's
\* severity included.
C37_RespectsLevel ==
    /\ \A i \in DOMAIN orch.logger.logBuffer :
           ~Below(orch.logger.logBuffer[i].level, orch.logger.config.level)
    /\ WroteToConsole => ~Below(probe.level, orch.logger.config.level)

\* A logger of level error has written and buffered the info entry of an error
\* of low severity.
C37_Witness ==
    /\ orch.logger.config.level = "error"
    /\ WroteToConsole
    /\ probe.op = "logEnhancedError"
    /\ probe.level = "info"
    /\ \E i \in DOMAIN orch.logger.logBuffer :
           orch.logger.logBuffer[i].level = "info" /\ orch.logger.logBuffer[i].code # None

\* debug, info, warn, error and critical respect the level.
LogMethodsRespectLevel ==
    /\ \A i \in DOMAIN orch.logger.logBuffer :
           orch.logger.logBuffer[i].code = None =>
               ~Below(orch.logger.logBuffer[i].level, orch.logger.config.level)
    /\ WroteToConsole /\ probe.op = "log" => ~Below(probe.level, orch.logger.config.level)

\* A logger of level error has written and buffered an entry of error().
ErrorLogged ==
    /\ orch.logger.config.level = "error"
    /\ WroteToConsole
    /\ probe.op = "log"
    /\ probe.level = "error"
    /\ Len(orch.logger.logBuffer) = 1

\* ---------------------------------------------------------------------------
\* Properties of the expiry of cache entries
\* ---------------------------------------------------------------------------

\* The time until which an entry is to be served: the time it was written at
\* plus the cacheTTL, in seconds, of the configuration it was written under.
ServedUntil(entry) == entry.result.madeAt + entry.result.madeUnder.cacheTTL * 1000

\* Call c looked its key up and found an entry past its time.
FoundExpired(c) ==
    /\ calls[c].lookupCacheOn
    /\ calls[c].lookupEntry # Null
    /\ calls[c].lookupAt > ServedUntil(calls[c].lookupEntry)

\* A hit was found by a lookup not later than the entry's time.
HitsWithinTtl ==
    \A c \in CallIds :
        Hit(c) => /\ calls[c].lookupEntry # Null
                  /\ calls[c].lookupAt <= ServedUntil(calls[c].lookupEntry)

\* A lookup that found an expired entry deleted it, and the call went on to its
\* first network attempt (a maxRetries below 0 leaves no attempt to make).
ExpiredLookupGoesOn ==
    \A c \in CallIds :
        FoundExpired(c) =>
            /\ calls[c].cacheKey \notin DOMAIN cache
            /\ ~Hit(c)
            /\ 0 <= calls[c].maxRetries =>
                   calls[c].pc = "inflight" /\ calls[c].netCalls = 1

\* The attempt of call c succeeds in this step.
Succeeds(c) == calls[c].pc = "inflight" /\ calls'[c].pc = "returned"

\* A success under a configuration that enables caching stores, under the key of
\* the call, the result it returns, to be served for cacheTTL seconds from now.
SuccessStoresFresh ==
    \A c \in CallIds :
        Succeeds(c) /\ config.cacheEnabled =>
            /\ ~calls'[c].result.cached
            /\ calls'[c].result.madeAt = now
            /\ EntryOf(cache', calls[c].cacheKey) =
                   [result |-> calls'[c].result, expiry |-> now + config.cacheTTL * 1000]

C39_Step == HitsWithinTtl' /\ ExpiredLookupGoesOn' /\ SuccessStoresFresh

\* C39: executePrompt never serves a cached result after its expiry: an entry
\* written at time t with a TTL of cacheTTL seconds is returned only by lookups
\* at times not later than t + cacheTTL*1000 ms; a later lookup deletes the
\* entry and the call proceeds to a network attempt whose success stores a
\* fresh entry.
C39_NeverServedAfterExpiry == [][C39_Step]_vars

\* A lookup two seconds after the write found the entry of one second expired,
\* deleted it and the call is in its first network attempt.
C39_Witness ==
    \E c \in CallIds :
        /\ FoundExpired(c)
        /\ calls[c].lookupEntry.result.madeAt = 0
        /\ calls[c].lookupAt = 2000
        /\ calls[c].cacheKey \notin DOMAIN cache
        /\ calls[c].pc = "inflight"

\* A lookup at the very end of the entry's time was answered from the cache.
ServedAtDeadline ==
    \E c \in CallIds :
        Hit(c) /\ calls[c].lookupAt = ServedUntil(calls[c].lookupEntry) /\ calls[c].lookupAt > 0

\* After an expired entry was deleted, the success of the call stored a fresh one.
FreshAfterExpiry ==
    \E c \in CallIds :
        /\ calls[c].pc = "returned" /\ ~calls[c].result.cached
        /\ calls[c].result.madeAt = 2000
        /\ calls[c].replaced = Null
        /\ EntryOf(cache, calls[c].cacheKey) # Null
        /\ cache[calls[c].cacheKey].expiry = 3000

\* ---------------------------------------------------------------------------
\* Properties of what a call changes in the cache
\* ---------------------------------------------------------------------------

\* Call c begins in this step: reload, availability check, lookup, first attempt.
Begins(c) == Live[c].pc = "idle" /\ calls'[c].pc # "idle"

\* Call c, begun and not ended, moves in this step.
GoesOn(c) ==
    /\ calls[c].pc \in {"inflight", "backoff"}
    /\ <<calls'[c].pc, calls'[c].attempts>> # <<calls[c].pc, calls[c].attempts>>

\* Call c has failed with one of the codes.
FailedWith(c, codes) ==
    /\ calls[c].pc = "thrown"
    /\ calls[c].error.kind = "AIExecutionError"
    /\ calls[c].error.code \in codes

\* An entry is written in this step only by the success of a call under a
\* configuration that enables caching, and under the key of that call.
WritesOnlyOnSuccess ==
    \A k \in DOMAIN cache' :
        EntryOf(cache, k) # cache'[k] =>
            \E c \in CallIds :
                Succeeds(c) /\ config.cacheEnabled /\ calls[c].cacheKey = k

\* The steps that leave the cache as it is: the start of a call that is refused
\* as unavailable, that is answered by a hit or that finds caching disabled, a
\* failed attempt, the next attempt, and a success with caching disabled.
QuietSteps ==
    \A c \in CallIds :
        /\ Begins(c) /\ (FailedWith(c, {"AI_UNAVAILABLE"})' \/ Hit(c)'
                            \/ ~calls'[c].available \/ ~calls'[c].lookupCacheOn)
               => cache' = cache
        /\ GoesOn(c) /\ ~Succeeds(c) => cache' = cache
        /\ Succeeds(c) /\ ~config.cacheEnabled => cache' = cache

\* The start of a call deletes nothing.
StartDeletesNothing == \A c \in CallIds : Begins(c) => cache' = cache

\* The start of a call deletes at most the expired entry of its own key.
StartDeletesExpiredOnly ==
    \A c \in CallIds :
        Begins(c) =>
            \/ cache' = cache /\ calls'[c].dropped = Null
            \/ /\ calls'[c].dropped # Null
               /\ calls'[c].dropped = EntryOf(cache, calls'[c].cacheKey)
               /\ now > calls'[c].dropped.expiry
               /\ cache' = MapDelete(cache, calls'[c].cacheKey)

\* A call that has failed with AI_UNAVAILABLE or AI_EXECUTION_FAILED deleted
\* nothing from the cache.
FailedCallsDeleteNothing ==
    \A c \in CallIds :
        FailedWith(c, {"AI_UNAVAILABLE", "AI_EXECUTION_FAILED"}) => calls[c].dropped = Null

\* A call that has failed with AI_UNAVAILABLE deleted nothing from the cache.
RefusedCallsDeleteNothing ==
    \A c \in CallIds : FailedWith(c, {"AI_UNAVAILABLE"}) => calls[c].dropped = Null

C40_Step == WritesOnlyOnSuccess /\ QuietSteps /\ FailedCallsDeleteNothing'

C40_AmendedStep ==
    WritesOnlyOnSuccess /\ QuietSteps /\ StartDeletesExpiredOnly /\ RefusedCallsDeleteNothing'

\* C40: the cache gains or overwrites an entry only when a network attempt
\* succeeds with caching enabled, and then only for that request's key: a call
\* that fails with AI_UNAVAILABLE or AI_EXECUTION_FAILED, a call answered by an
\* unexpired cache hit, and any call made with caching disabled leave the set
\* of cached entries and their stored results unchanged.
C40_CacheFrame == [][C40_Step]_vars

\* C40 as amended: the same, except that a call that fails with
\* AI_EXECUTION_FAILED may have deleted, in its lookup, the expired entry of its
\* own key, and nothing else.
C40_CacheFrameAmended == [][C40_AmendedStep]_vars

\* A call found the expired entry of its key, deleted it, and failed with
\* AI_EXECUTION_FAILED; the entry is gone.
C40_Witness ==
    \E c \in CallIds :
        /\ FailedWith(c, {"AI_EXECUTION_FAILED"})
        /\ calls[c].dropped # Null
        /\ calls[c].cacheKey \notin DOMAIN cache

\* A call failed with AI_EXECUTION_FAILED while the unexpired entry of another
\* request was in the cache, and the entry is still there.
FailedBesideEntry ==
    \E c \in CallIds :
        /\ FailedWith(c, {"AI_EXECUTION_FAILED"})
        /\ calls[c].dropped = Null
        /\ \E k \in DOMAIN cache : k # calls[c].cacheKey /\ ~(now > cache[k].expiry)

====
